---- MODULE Spec2Model ----
(***************************************************************************)
(* The DNSSEC trust anchor store of systemd-resolved                       *)
(* (src/resolve/resolved-dns-trust-anchor.c): the positive anchors         *)
(* (DnsResourceKey -> DnsAnswer), the negative anchors (a set of names),   *)
(* the loaders of the *.positive and *.negative files, the built-in root   *)
(* DS anchor, flush and the two lookups.                                   *)
(*                                                                         *)
(* Strings of the C code are sequences of one-character strings, so that   *)
(* parsing, case folding and decoding are computed and not assumed.        *)
(***************************************************************************)
EXTENDS Integers, Sequences, FiniteSets, TLC

(* ------------------------------ bounds -------------------------------- *)

\* files one enumeration returns at most
MaxFiles == 2
\* lines read from one file at most
MaxLines == 2
\* lookup results callers hold at the same time at most
MaxHeld == 1

\* the direct calls of the loaders between two flushes
MaxLoads == 2

\* the calls of dns_trust_anchor_load() between two flushes
MaxReloads == 3

(* ------------------------- errno values used -------------------------- *)

ENOENT == 2
ENOMEM == 12
EACCES == 13
EINVAL == 22
ERANGE == 34
EEXIST == 17
EBUSY == 16
ENOBUFS == 105

(* ----------------------- characters and strings ----------------------- *)

UpperCase == << "A", "B", "C", "D", "E", "F", "G", "H", "I", "J", "K", "L", "M",
                "N", "O", "P", "Q", "R", "S", "T", "U", "V", "W", "X", "Y", "Z" >>

LowerCase == << "a", "b", "c", "d", "e", "f", "g", "h", "i", "j", "k", "l", "m",
                "n", "o", "p", "q", "r", "s", "t", "u", "v", "w", "x", "y", "z" >>

Digits == << "0", "1", "2", "3", "4", "5", "6", "7", "8", "9" >>

\* position of character c in the sequence of characters t, 0 when absent
PositionIn(t) == [c \in { t[i] : i \in 1..Len(t) } |-> CHOOSE i \in 1..Len(t) : t[i] = c]

UpperCasePosition == PositionIn(UpperCase)

LowerCasePosition == PositionIn(LowerCase)

DigitPosition == PositionIn(Digits)

IndexIn(c, position) == IF c \in DOMAIN position THEN position[c] ELSE 0

UpperCaseSet == DOMAIN UpperCasePosition

ascii_tolower(c) == IF c \in UpperCaseSet THEN LowerCase[UpperCasePosition[c]] ELSE c

ascii_strlower(s) == [i \in 1..Len(s) |-> ascii_tolower(s[i])]

streq(a, b) == a = b

strcaseeq(a, b) == ascii_strlower(a) = ascii_strlower(b)

isempty(p) == p = << >>

(* ------------------------------ DNS names ----------------------------- *)

\* the labels of a name: the runs of characters between the dots
RECURSIVE LabelsFrom(_, _, _)
LabelsFrom(name, i, cur) ==
    IF i > Len(name) THEN << cur >>
    ELSE IF name[i] = "." THEN << cur >> \o LabelsFrom(name, i + 1, << >>)
    ELSE LabelsFrom(name, i + 1, Append(cur, name[i]))

\* a name without its one trailing dot; the root ("." or "") is the empty name
StripTrailingDot(name) ==
    IF Len(name) > 0 /\ name[Len(name)] = "." THEN SubSeq(name, 1, Len(name) - 1) ELSE name

dns_name_is_valid(name) ==
    LET Labels(labels) == \A i \in 1..Len(labels) : Len(labels[i]) \in 1..63
        Name(n) == n = << >> \/ (Labels(LabelsFrom(n, 1, << >>)) /\ Len(n) <= 253)
    IN  Name(StripTrailingDot(name))

\* the canonical form two equal names share: lower case, no trailing dot
Normalize(name) == ascii_strlower(StripTrailingDot(name))

\* the names of the lines, keys and lookups tried
w_root == << "." >>
w_example_com == << "e", "x", "a", "m", "p", "l", "e", ".", "c", "o", "m" >>
w_EXAMPLE_COM == << "E", "X", "A", "M", "P", "L", "E", ".", "C", "O", "M", "." >>
w_www_example_com == << "w", "w", "w", "." >> \o w_example_com
w_com == << "c", "o", "m" >>
w_bad_name == << "a", ".", ".", "b" >>

\* the canonical forms of the names tried, computed once
Normalized ==
    [name \in {<< >>, w_root, w_example_com, w_EXAMPLE_COM, w_www_example_com, w_com, w_bad_name} |->
        Normalize(name)]

dns_name_normalize(name) == IF name \in DOMAIN Normalized THEN Normalized[name] ELSE Normalize(name)

dns_name_equal(a, b) == dns_name_normalize(a) = dns_name_normalize(b)

(* ------------------------- numbers and codecs ------------------------- *)

RECURSIVE DecimalValue(_, _)
DecimalValue(s, acc) ==
    IF s = << >> THEN acc
    ELSE DecimalValue(Tail(s), acc * 10 + (IndexIn(Head(s), DigitPosition) - 1))

\* [r, v]: r = 0 and the value, or r < 0
safe_atou16(s) ==
    IF s = << >> \/ \E i \in 1..Len(s) : IndexIn(s[i], DigitPosition) = 0
    THEN [r |-> -EINVAL, v |-> 0]
    ELSE IF Len(s) > 10 \/ DecimalValue(s, 0) > 65535
    THEN [r |-> -ERANGE, v |-> 0]
    ELSE [r |-> 0, v |-> DecimalValue(s, 0)]

HexLower == << "a", "b", "c", "d", "e", "f" >>

HexUpper == << "A", "B", "C", "D", "E", "F" >>

HexLowerPosition == PositionIn(HexLower)

HexUpperPosition == PositionIn(HexUpper)

unhexchar(c) ==
    IF IndexIn(c, DigitPosition) > 0 THEN IndexIn(c, DigitPosition) - 1
    ELSE IF IndexIn(c, HexLowerPosition) > 0 THEN IndexIn(c, HexLowerPosition) + 9
    ELSE IF IndexIn(c, HexUpperPosition) > 0 THEN IndexIn(c, HexUpperPosition) + 9
    ELSE -EINVAL

\* [r, mem]: the bytes two hex digits at a time (a last single digit is a high nibble)
unhexmem(p) ==
    LET n == (Len(p) + 1) \div 2
        hi(i) == unhexchar(p[2 * i - 1])
        lo(i) == IF 2 * i <= Len(p) THEN unhexchar(p[2 * i]) ELSE 0
    IN  IF \E i \in 1..Len(p) : unhexchar(p[i]) < 0
        THEN [r |-> -EINVAL, mem |-> << >>]
        ELSE [r |-> 0, mem |-> [i \in 1..n |-> hi(i) * 16 + lo(i)]]

Base64Extra == << "+", "/" >>

Base64ExtraPosition == PositionIn(Base64Extra)

unbase64char(c) ==
    IF IndexIn(c, UpperCasePosition) > 0 THEN IndexIn(c, UpperCasePosition) - 1
    ELSE IF IndexIn(c, LowerCasePosition) > 0 THEN IndexIn(c, LowerCasePosition) + 25
    ELSE IF IndexIn(c, DigitPosition) > 0 THEN IndexIn(c, DigitPosition) + 51
    ELSE IF IndexIn(c, Base64ExtraPosition) > 0 THEN IndexIn(c, Base64ExtraPosition) + 61
    ELSE -EINVAL

\* the bytes of the full quadruples of q
RECURSIVE Base64Quads(_)
Base64Quads(q) ==
    IF Len(q) < 4 THEN << >>
    ELSE LET a == unbase64char(q[1])
             b == unbase64char(q[2])
             c == unbase64char(q[3])
             d == unbase64char(q[4])
         IN  << a * 4 + b \div 16, (b % 16) * 16 + c \div 4, (c % 4) * 64 + d >>
             \o Base64Quads(SubSeq(q, 5, Len(q)))

\* [r, mem]: the input is a multiple of four long, "=" padded at its end
unbase64mem(p) ==
    LET fail == [r |-> -EINVAL, mem |-> << >>]
        Rest(quads, k, a, b, c) ==
            IF k = 3
            THEN IF c % 4 # 0 THEN fail
                 ELSE [r |-> 0, mem |-> quads \o << a * 4 + b \div 16, (b % 16) * 16 + c \div 4 >>]
            ELSE IF k = 2
            THEN IF b % 16 # 0 THEN fail
                 ELSE [r |-> 0, mem |-> quads \o << a * 4 + b \div 16 >>]
            ELSE IF k = 0 THEN [r |-> 0, mem |-> quads]
            ELSE fail
        Body(body, full) ==
            IF Len(p) % 4 # 0 THEN fail
            ELSE IF \E i \in 1..Len(body) : unbase64char(body[i]) < 0 THEN fail
            ELSE Rest(Base64Quads(SubSeq(body, 1, full)), Len(body) - full,
                      unbase64char(body[full + 1]), unbase64char(body[full + 2]),
                      unbase64char(body[full + 3]))
        Unpadded(l) == Body(SubSeq(p, 1, l), (l \div 4) * 4)
        Padded(l0, l1) == Unpadded(IF l1 > 0 /\ l1 < l0 /\ p[l1] = "=" THEN l1 - 1 ELSE l1)
    IN  Padded(Len(p), IF Len(p) > 0 /\ p[Len(p)] = "=" THEN Len(p) - 1 ELSE Len(p))

(* --------------------------- word extraction -------------------------- *)

WHITESPACE == { " ", "\t" }

IsSpace(c) == c \in WHITESPACE

\* the first position from i on where p has a character of cs, Len(p) + 1 when none
FirstOf(p, i, cs) ==
    IF \E j \in i..Len(p) : p[j] \in cs
    THEN CHOOSE j \in i..Len(p) : p[j] \in cs /\ \A k \in i..(j - 1) : p[k] \notin cs
    ELSE Len(p) + 1

\* p from its first character that is no whitespace
SkipSpaces(p) ==
    IF \E j \in 1..Len(p) : ~IsSpace(p[j])
    THEN SubSeq(p, CHOOSE j \in 1..Len(p) : ~IsSpace(p[j]) /\ \A k \in 1..(j - 1) : IsSpace(p[k]), Len(p))
    ELSE << >>

\* the word of p that continues at position i, outside quotes: [r, word, p]; r = 1
\* and the word, with p after it and the whitespace that follows, or r < 0 on an
\* unterminated quote
RECURSIVE ExtractFrom(_, _, _, _)
ExtractFrom(p, i, word, quotes) ==
    LET At(j) ==
            LET Quoted(k) ==
                    IF k > Len(p) THEN [r |-> -EINVAL, word |-> << >>, p |-> p]
                    ELSE ExtractFrom(p, k + 1, word \o SubSeq(p, i, j - 1) \o SubSeq(p, j + 1, k - 1),
                                     quotes)
            IN  IF j > Len(p) THEN [r |-> 1, word |-> word \o SubSeq(p, i, j - 1), p |-> << >>]
                ELSE IF IsSpace(p[j])
                THEN [r |-> 1, word |-> word \o SubSeq(p, i, j - 1),
                      p |-> SkipSpaces(SubSeq(p, j, Len(p)))]
                ELSE Quoted(FirstOf(p, j + 1, {p[j]}))
    IN  At(FirstOf(p, i, IF quotes THEN {" ", "\t", "'", "\""} ELSE {" ", "\t"}))

extract_first_word(p, quotes) ==
    LET From(q) == IF q = << >> THEN [r |-> 0, word |-> << >>, p |-> q]
                   ELSE ExtractFrom(q, 1, << >>, quotes)
    IN  From(SkipSpaces(p))

\* up to n words of p: [r, words, p]; r = the number of words found, or r < 0
RECURSIVE extract_many_words(_, _)
extract_many_words(p, n) ==
    LET First(w) ==
            LET Rest(rest) ==
                    IF rest.r < 0 THEN rest
                    ELSE [r |-> rest.r + 1, words |-> << w.word >> \o rest.words, p |-> rest.p]
            IN  IF w.r < 0 THEN [r |-> w.r, words |-> << >>, p |-> p]
                ELSE IF w.r = 0 THEN [r |-> 0, words |-> << >>, p |-> w.p]
                ELSE Rest(extract_many_words(w.p, n - 1))
    IN  IF n = 0 THEN [r |-> 0, words |-> << >>, p |-> p]
        ELSE First(extract_first_word(p, FALSE))

\* strstrip(): without leading and trailing whitespace
StripRight(l) ==
    IF \E j \in 1..Len(l) : ~IsSpace(l[j])
    THEN SubSeq(l, 1, CHOOSE j \in 1..Len(l) : ~IsSpace(l[j]) /\ \A k \in (j + 1)..Len(l) : IsSpace(l[k]))
    ELSE << >>

strstrip(l) == StripRight(SkipSpaces(l))

(* ------------------- DNSSEC algorithm and digest names ---------------- *)

DNSSEC_ALGORITHM_RSASHA1 == 5
DNSSEC_ALGORITHM_RSASHA256 == 8
DNSSEC_DIGEST_SHA1 == 1
DNSSEC_DIGEST_SHA256 == 2

dnssec_algorithm_table ==
    { << << "R", "S", "A", "S", "H", "A", "1" >>, DNSSEC_ALGORITHM_RSASHA1 >>,
      << << "R", "S", "A", "S", "H", "A", "2", "5", "6" >>, DNSSEC_ALGORITHM_RSASHA256 >> }

dnssec_digest_table ==
    { << << "S", "H", "A", "1" >>, DNSSEC_DIGEST_SHA1 >>,
      << << "S", "H", "A", "2", "5", "6" >>, DNSSEC_DIGEST_SHA256 >> }

\* the id of a name of the table, -1 for any other string
FromString(table, s) ==
    IF \E e \in table : e[1] = s THEN (CHOOSE e \in table : e[1] = s)[2] ELSE -1

dnssec_algorithm_from_string(s) == FromString(dnssec_algorithm_table, s)

dnssec_digest_from_string(s) == FromString(dnssec_digest_table, s)

(* ---------------------- resource keys and records --------------------- *)

DNS_CLASS_IN == 1
DNS_TYPE_A == 1
DNS_TYPE_DS == 43
DNS_TYPE_DNSKEY == 48

DNS_ANSWER_AUTHENTICATED == 1

DNS_RESOURCE_KEY_CONST(c, t, n) == [class |-> c, type |-> t, name |-> n]

dns_resource_key_equal(a, b) ==
    a.class = b.class /\ a.type = b.type /\ dns_name_equal(a.name, b.name)

ZeroDS == [key_tag |-> 0, algorithm |-> 0, digest_type |-> 0, digest |-> << >>]

ZeroDNSKEY == [flags |-> 0, protocol |-> 0, algorithm |-> 0, key |-> << >>]

\* a record with its key and zeroed data
dns_resource_record_new_full(class, type, name) ==
    [key |-> DNS_RESOURCE_KEY_CONST(class, type, name), ds |-> ZeroDS, dnskey |-> ZeroDNSKEY]

\* all fields equal: the key, and the data of the key's type
dns_resource_record_equal(a, b) ==
    /\ dns_resource_key_equal(a.key, b.key)
    /\ a.key.type = DNS_TYPE_DS => a.ds = b.ds
    /\ a.key.type = DNS_TYPE_DNSKEY => a.dnskey = b.dnskey

(* ------------------ DnsAnswer objects, reference counted --------------- *)
(* answers[a] is the object behind pointer a; pointer 0 is NULL; an object *)
(* with n_ref = 0 is free memory.                                          *)

FreeAnswer == [n_ref |-> 0, items |-> << >>]

\* the free slot an allocation returns
FreeSlot(answers) ==
    IF \E a \in DOMAIN answers : answers[a].n_ref = 0
    THEN CHOOSE a \in DOMAIN answers :
             answers[a].n_ref = 0 /\ \A b \in DOMAIN answers : answers[b].n_ref = 0 => a <= b
    ELSE 0

\* [answers, a]: a = 0 when the allocation fails
dns_answer_new(answers, oom) ==
    LET At(a) ==
            IF oom \/ a = 0 THEN [answers |-> answers, a |-> 0]
            ELSE [answers |-> [answers EXCEPT ![a] = [n_ref |-> 1, items |-> << >>]], a |-> a]
    IN  At(FreeSlot(answers))

dns_answer_ref(answers, a) ==
    IF a = 0 THEN answers ELSE [answers EXCEPT ![a].n_ref = @ + 1]

dns_answer_unref(answers, a) ==
    IF a = 0 THEN answers
    ELSE IF answers[a].n_ref <= 1 THEN [answers EXCEPT ![a] = FreeAnswer]
    ELSE [answers EXCEPT ![a].n_ref = @ - 1]

\* [answers, r]: the record joins the items unless an equal one is there already
dns_answer_add(answers, a, rr, ifindex, flags) ==
    IF a = 0 THEN [answers |-> answers, r |-> -ENOBUFS]
    ELSE IF answers[a].n_ref > 1 THEN [answers |-> answers, r |-> -EBUSY]
    ELSE LET items == answers[a].items
             dup(i) == items[i].ifindex = ifindex /\ dns_resource_record_equal(items[i].rr, rr)
         IN  IF \E i \in 1..Len(items) : dup(i)
             THEN LET i == CHOOSE j \in 1..Len(items) : dup(j)
                  IN  [answers |-> [answers EXCEPT ![a].items[i].flags = @ \cup flags], r |-> 0]
             ELSE [answers |-> [answers EXCEPT ![a].items =
                                    Append(@, [rr |-> rr, ifindex |-> ifindex, flags |-> flags])],
                   r |-> 1]

\* [answers, a, r]: afterwards a is owned by the caller alone and has room: a new
\* object when a was NULL, a itself when the caller was its only owner, else a new
\* object with the same items, the caller's reference to the shared one dropped
dns_answer_reserve_or_clone(answers, a, oom) ==
    LET Clone(n) ==
            IF n.a = 0 THEN [answers |-> answers, a |-> a, r |-> -ENOMEM]
            ELSE IF a = 0 THEN [answers |-> n.answers, a |-> n.a, r |-> 0]
            ELSE [answers |-> dns_answer_unref([n.answers EXCEPT ![n.a].items = answers[a].items], a),
                  a |-> n.a, r |-> 0]
    IN  IF a # 0 /\ answers[a].n_ref = 1
        THEN [answers |-> answers, a |-> a, r |-> IF oom THEN -ENOMEM ELSE 0]
        ELSE Clone(dns_answer_new(answers, oom))

dns_answer_add_extend(answers, a, rr, ifindex, flags, oom) ==
    LET Reserved(c) ==
            LET Added(x) == [answers |-> x.answers, a |-> c.a, r |-> x.r]
            IN  IF c.r < 0 THEN c
                ELSE Added(dns_answer_add(c.answers, c.a, rr, ifindex, flags))
    IN  Reserved(dns_answer_reserve_or_clone(answers, a, oom))

(* ------------------------- hashmap and set ---------------------------- *)
(* A NULL hashmap is [allocated |-> FALSE]; its entries are compared with   *)
(* the hash ops it was allocated with (resource keys, DNS names).          *)

NullMap == [allocated |-> FALSE, entries |-> {}]

\* [h, r]
hashmap_ensure_allocated(h, oom) ==
    IF h.allocated THEN [h |-> h, r |-> 0]
    ELSE IF oom THEN [h |-> h, r |-> -ENOMEM]
    ELSE [h |-> [allocated |-> TRUE, entries |-> {}], r |-> 0]

HasKey(h, key) == \E e \in h.entries : dns_resource_key_equal(e.key, key)

EntryOf(h, key) == CHOOSE e \in h.entries : dns_resource_key_equal(e.key, key)

hashmap_get(h, key) == IF HasKey(h, key) THEN EntryOf(h, key).value ELSE 0

\* [h, r]: r = 1 when the entry was added, 0 when it was there with the same value
hashmap_put(h, key, value, oom) ==
    IF HasKey(h, key)
    THEN [h |-> h, r |-> IF EntryOf(h, key).value = value THEN 0 ELSE -EEXIST]
    ELSE IF oom THEN [h |-> h, r |-> -ENOMEM]
    ELSE [h |-> [h EXCEPT !.entries = @ \cup {[key |-> key, value |-> value]}], r |-> 1]

\* [h, r]: an entry with an equal key gets the new key and the new value
hashmap_replace(h, key, value, oom) ==
    IF HasKey(h, key)
    THEN [h |-> [h EXCEPT !.entries = (@ \ {EntryOf(h, key)}) \cup {[key |-> key, value |-> value]}],
          r |-> 0]
    ELSE hashmap_put(h, key, value, oom)

set_ensure_allocated(s, oom) == hashmap_ensure_allocated(s, oom)

HasName(s, name) == \E n \in s.entries : dns_name_equal(n, name)

\* [h, r]: r = 1 when the name was added, 0 when an equal name was there
set_put(s, name, oom) ==
    IF HasName(s, name) THEN [h |-> s, r |-> 0]
    ELSE IF oom THEN [h |-> s, r |-> -ENOMEM]
    ELSE [h |-> [s EXCEPT !.entries = @ \cup {name}], r |-> 1]

set_contains(s, name) == IF HasName(s, name) THEN 1 ELSE 0

(* --------------------------- the trust anchor ------------------------- *)
(* A store value s holds the DnsTrustAnchor's two fields and the DnsAnswer  *)
(* objects its pointers refer to. oom names the source line of the one     *)
(* allocation that fails during a call, 0 when none fails.                 *)

\* The DS RR of the root zone
root_digest ==
    << 73, 170, 193, 29, 123, 111, 100, 70, 112, 46, 84, 161, 96, 115, 113, 96,
       122, 26, 65, 133, 82, 0, 253, 44, 225, 205, 222, 50, 242, 78, 143, 181 >>

RootDSKey == DNS_RESOURCE_KEY_CONST(DNS_CLASS_IN, DNS_TYPE_DS, << "." >>)

\* lines 56-80, the entry being absent: the record, its answer, and the entry
\* [s, r]
BuiltinInstall(s1, oom) ==
    LET rr == [dns_resource_record_new_full(DNS_CLASS_IN, DNS_TYPE_DS, << >>) EXCEPT
                   !.ds = [key_tag |-> 19036,
                           algorithm |-> DNSSEC_ALGORITHM_RSASHA256,
                           digest_type |-> DNSSEC_DIGEST_SHA256,
                           digest |-> root_digest]]
        New(n) ==
            LET Added(x) ==
                    LET Put(p) ==
                            IF p.r < 0 THEN [s |-> s1, r |-> p.r]
                            ELSE [s |-> [s1 EXCEPT !.answers = x.answers, !.positive_by_key = p.h],
                                  r |-> 0]
                    IN  IF x.r < 0 THEN [s |-> s1, r |-> x.r]
                        ELSE Put(hashmap_put(s1.positive_by_key, rr.key, n.a, oom = 77))
            IN  IF n.a = 0 THEN [s |-> s1, r |-> -ENOMEM]
                ELSE Added(dns_answer_add(n.answers, n.a, rr, 0, {DNS_ANSWER_AUTHENTICATED}))
    IN  IF oom \in {57, 65} THEN [s |-> s1, r |-> -ENOMEM]
        ELSE New(dns_answer_new(s1.answers, oom = 69))

\* the installer without its lookup of line 53: it installs whatever is there
BuiltinUnchecked(s, oom) ==
    BuiltinInstall([s EXCEPT !.positive_by_key = hashmap_ensure_allocated(@, FALSE).h], oom)

\* the installer reporting success without installing anything
BuiltinSkipped(s, oom) == [s |-> s, r |-> 0]

\* the installer adding its record to the entry it finds at line 53
BuiltinAppending(s, oom) ==
    LET rr == [dns_resource_record_new_full(DNS_CLASS_IN, DNS_TYPE_DS, << >>) EXCEPT
                   !.ds = [key_tag |-> 19036,
                           algorithm |-> DNSSEC_ALGORITHM_RSASHA256,
                           digest_type |-> DNSSEC_DIGEST_SHA256,
                           digest |-> root_digest]]
        Ensured(e) ==
            LET Allocated(s1) ==
                    LET Found(a) ==
                            IF a # 0
                            THEN [s |-> [s1 EXCEPT !.answers[a].items =
                                             Append(@, [rr |-> rr, ifindex |-> 0,
                                                        flags |-> {DNS_ANSWER_AUTHENTICATED}])],
                                  r |-> 0]
                            ELSE BuiltinInstall(s1, oom)
                    IN  Found(hashmap_get(s1.positive_by_key, RootDSKey))
            IN  IF e.r < 0 THEN [s |-> s, r |-> e.r]
                ELSE Allocated([s EXCEPT !.positive_by_key = e.h])
    IN  Ensured(hashmap_ensure_allocated(s.positive_by_key, oom = 49))

\* [s, r]
dns_trust_anchor_add_builtin(s, oom) ==
    LET Ensured(e) ==
            LET Allocated(s1) ==
                    IF hashmap_get(s1.positive_by_key, RootDSKey) # 0 THEN [s |-> s1, r |-> 0]
                    ELSE BuiltinInstall(s1, oom)
            IN  IF e.r < 0 THEN [s |-> s, r |-> e.r]
                ELSE Allocated([s EXCEPT !.positive_by_key = e.h])
    IN  Ensured(hashmap_ensure_allocated(s.positive_by_key, oom = 49))

w_IN == << "I", "N" >>

w_DS == << "D", "S" >>

w_DNSKEY == << "D", "N", "S", "K", "E", "Y" >>

w_3 == << "3" >>

\* the DS record of the type fields at p: [r, rr, p]
ParseDS(domain, p, oom) ==
    LET fail(r) == [r |-> r, rr |-> dns_resource_record_new_full(0, 0, << >>), p |-> p]
        Fields(f) ==
            LET Values(kt, a, dt, dd) ==
                    IF kt.r < 0 THEN fail(kt.r)
                    ELSE IF a < 0 THEN fail(-EINVAL)
                    ELSE IF dt < 0 THEN fail(-EINVAL)
                    ELSE IF dd.r < 0 THEN fail(-EINVAL)
                    ELSE IF oom = 157 THEN fail(-ENOMEM)
                    ELSE [r |-> 0,
                          rr |-> [dns_resource_record_new_full(DNS_CLASS_IN, DNS_TYPE_DS, domain) EXCEPT
                                      !.ds = [key_tag |-> kt.v, algorithm |-> a, digest_type |-> dt,
                                              digest |-> dd.mem]],
                          p |-> f.p]
            IN  IF f.r < 0 THEN fail(-EINVAL)
                ELSE IF f.r # 4 THEN fail(-EINVAL)
                ELSE Values(safe_atou16(f.words[1]), dnssec_algorithm_from_string(f.words[2]),
                            dnssec_digest_from_string(f.words[3]), unhexmem(f.words[4]))
    IN  Fields(extract_many_words(p, 4))

\* the DNSKEY record of the type fields at p without the test of the protocol
\* field at lines 173-176
ParseDNSKEYAnyProtocol(domain, p, oom) ==
    LET fail(r) == [r |-> r, rr |-> dns_resource_record_new_full(0, 0, << >>), p |-> p]
        Fields(f) ==
            LET Values(fl, a, k) ==
                    IF fl.r < 0 THEN fail(fl.r)
                    ELSE IF a < 0 THEN fail(-EINVAL)
                    ELSE IF k.r < 0 THEN fail(k.r)
                    ELSE IF oom = 202 THEN fail(-ENOMEM)
                    ELSE [r |-> 0,
                          rr |-> [dns_resource_record_new_full(DNS_CLASS_IN, DNS_TYPE_DNSKEY, domain) EXCEPT
                                      !.dnskey = [flags |-> fl.v, protocol |-> 3, algorithm |-> a,
                                                  key |-> k.mem]],
                          p |-> f.p]
            IN  IF f.r < 0 THEN fail(f.r)
                ELSE IF f.r # 4 THEN fail(-EINVAL)
                ELSE Values(safe_atou16(f.words[1]), dnssec_algorithm_from_string(f.words[3]),
                            unbase64mem(f.words[4]))
    IN  Fields(extract_many_words(p, 4))

\* the DNSKEY record of the type fields at p: [r, rr, p]
ParseDNSKEY(domain, p, oom) ==
    LET fail(r) == [r |-> r, rr |-> dns_resource_record_new_full(0, 0, << >>), p |-> p]
        Fields(f) ==
            LET Values(fl, a, k) ==
                    IF fl.r < 0 THEN fail(fl.r)
                    ELSE IF a < 0 THEN fail(-EINVAL)
                    ELSE IF k.r < 0 THEN fail(k.r)
                    ELSE IF oom = 202 THEN fail(-ENOMEM)
                    ELSE [r |-> 0,
                          rr |-> [dns_resource_record_new_full(DNS_CLASS_IN, DNS_TYPE_DNSKEY, domain) EXCEPT
                                      !.dnskey = [flags |-> fl.v, protocol |-> 3, algorithm |-> a,
                                                  key |-> k.mem]],
                          p |-> f.p]
            IN  IF f.r < 0 THEN fail(f.r)
                ELSE IF f.r # 4 THEN fail(-EINVAL)
                ELSE IF ~streq(f.words[2], w_3) THEN fail(-EINVAL)
                ELSE Values(safe_atou16(f.words[1]), dnssec_algorithm_from_string(f.words[3]),
                            unbase64mem(f.words[4]))
    IN  Fields(extract_many_words(p, 4))

\* lines 96-221 without the test of the class at lines 113-116
ParsePositiveAnyClass(l, oom) ==
    LET fail(r) == [r |-> r, rr |-> dns_resource_record_new_full(0, 0, << >>)]
        Domain(d) ==
            LET ClassType(ct) ==
                    LET Data(x) ==
                            IF x.r < 0 THEN fail(x.r)
                            ELSE IF ~isempty(x.p) THEN fail(-EINVAL)
                            ELSE [r |-> 0, rr |-> x.rr]
                    IN  IF ct.r < 0 THEN fail(ct.r)
                        ELSE IF ct.r # 2 THEN fail(-EINVAL)
                        ELSE IF strcaseeq(ct.words[2], w_DS) THEN Data(ParseDS(d.word, ct.p, oom))
                        ELSE IF strcaseeq(ct.words[2], w_DNSKEY) THEN Data(ParseDNSKEY(d.word, ct.p, oom))
                        ELSE fail(-EINVAL)
            IN  IF d.r < 0 THEN fail(d.r)
                ELSE IF ~dns_name_is_valid(d.word) THEN fail(-EINVAL)
                ELSE ClassType(extract_many_words(d.p, 2))
    IN  Domain(extract_first_word(l, TRUE))

\* lines 96-221 of the positive loader: [r, rr], the record of line l or r < 0
ParsePositive(l, oom) ==
    LET fail(r) == [r |-> r, rr |-> dns_resource_record_new_full(0, 0, << >>)]
        Domain(d) ==
            LET ClassType(ct) ==
                    LET Data(x) ==
                            IF x.r < 0 THEN fail(x.r)
                            ELSE IF ~isempty(x.p) THEN fail(-EINVAL)
                            ELSE [r |-> 0, rr |-> x.rr]
                    IN  IF ct.r < 0 THEN fail(ct.r)
                        ELSE IF ct.r # 2 THEN fail(-EINVAL)
                        ELSE IF ~strcaseeq(ct.words[1], w_IN) THEN fail(-EINVAL)
                        ELSE IF strcaseeq(ct.words[2], w_DS) THEN Data(ParseDS(d.word, ct.p, oom))
                        ELSE IF strcaseeq(ct.words[2], w_DNSKEY) THEN Data(ParseDNSKEY(d.word, ct.p, oom))
                        ELSE fail(-EINVAL)
            IN  IF d.r < 0 THEN fail(d.r)
                ELSE IF ~dns_name_is_valid(d.word) THEN fail(-EINVAL)
                ELSE ClassType(extract_many_words(d.p, 2))
    IN  Domain(extract_first_word(l, TRUE))

(* The merge of lines 223-241, one operator per statement. A frame f holds  *)
(* the store s, the locals rr, old_answer and answer, and r.               *)

MergeFrame(s, rr) == [s |-> s, rr |-> rr, old_answer |-> 0, answer |-> 0, r |-> 0]

\* r = hashmap_ensure_allocated(&d->positive_by_key, ...)
MergeEnsure(f, oom) ==
    LET Ensured(e) == [f EXCEPT !.s.positive_by_key = e.h, !.r = e.r]
    IN  Ensured(hashmap_ensure_allocated(f.s.positive_by_key, oom = 223))

\* line 227 taking the answer of whatever entry the map has
MergeGetAny(f) ==
    [f EXCEPT !.old_answer = IF f.s.positive_by_key.entries = {} THEN 0
                             ELSE (CHOOSE e \in f.s.positive_by_key.entries : TRUE).value]

\* old_answer = hashmap_get(d->positive_by_key, rr->key)
MergeGet(f) == [f EXCEPT !.old_answer = hashmap_get(f.s.positive_by_key, f.rr.key)]

\* line 228 without the reference: answer is a second name for the stored object
MergeAlias(f) == [f EXCEPT !.answer = f.old_answer]

\* answer = dns_answer_ref(old_answer)
MergeRef(f) ==
    [f EXCEPT !.s.answers = dns_answer_ref(f.s.answers, f.old_answer), !.answer = f.old_answer]

\* line 230 with no flag given to the record
MergeExtendUnauthenticated(f, oom) ==
    LET Extended(x) == [f EXCEPT !.s.answers = x.answers, !.answer = x.a, !.r = x.r]
    IN  Extended(dns_answer_add_extend(f.s.answers, f.answer, f.rr, 0, {}, oom = 230))

\* line 230 with an add that does not look for an equal record
MergeAppend(f, oom) ==
    LET Reserved(c) ==
            IF c.r < 0 THEN [f EXCEPT !.s.answers = c.answers, !.answer = c.a, !.r = c.r]
            ELSE [f EXCEPT !.s.answers =
                               [c.answers EXCEPT ![c.a].items =
                                    Append(@, [rr |-> f.rr, ifindex |-> 0,
                                               flags |-> {DNS_ANSWER_AUTHENTICATED}])],
                           !.answer = c.a, !.r = 1]
    IN  Reserved(dns_answer_reserve_or_clone(f.s.answers, f.answer, oom = 230))

\* line 230 with an add that writes into the stored object, shared or not
MergeExtendInPlace(f, oom) ==
    LET Extended(x) == [f EXCEPT !.s.answers = x.answers, !.answer = x.a, !.r = x.r]
        Into(items) ==
            IF \E i \in 1..Len(items) : dns_resource_record_equal(items[i].rr, f.rr)
            THEN [f EXCEPT !.r = 0]
            ELSE [f EXCEPT !.s.answers[f.answer].items =
                               Append(@, [rr |-> f.rr, ifindex |-> 0,
                                          flags |-> {DNS_ANSWER_AUTHENTICATED}]),
                           !.r = 1]
    IN  IF f.answer = 0
        THEN Extended(dns_answer_add_extend(f.s.answers, f.answer, f.rr, 0,
                                            {DNS_ANSWER_AUTHENTICATED}, oom = 230))
        ELSE Into(f.s.answers[f.answer].items)

\* r = dns_answer_add_extend(&answer, rr, 0, DNS_ANSWER_AUTHENTICATED)
MergeExtend(f, oom) ==
    LET Extended(x) == [f EXCEPT !.s.answers = x.answers, !.answer = x.a, !.r = x.r]
    IN  Extended(dns_answer_add_extend(f.s.answers, f.answer, f.rr, 0, {DNS_ANSWER_AUTHENTICATED},
                                       oom = 230))

\* line 234 with hashmap_put, which refuses a key that is there
MergeReplaceAsPut(f, oom) ==
    LET Replaced(x) == [f EXCEPT !.s.positive_by_key = x.h, !.r = x.r]
    IN  Replaced(hashmap_put(f.s.positive_by_key, f.rr.key, f.answer, oom = 234))

\* r = hashmap_replace(d->positive_by_key, rr->key, answer)
MergeReplace(f, oom) ==
    LET Replaced(x) == [f EXCEPT !.s.positive_by_key = x.h, !.r = x.r]
    IN  Replaced(hashmap_replace(f.s.positive_by_key, f.rr.key, f.answer, oom = 234))

\* line 240 without the unref: old_answer = NULL; answer = NULL; return 0
MergeForget(f) ==
    [f EXCEPT !.old_answer = 0, !.answer = 0, !.r = 0]

\* old_answer = dns_answer_unref(old_answer); answer = NULL; return 0
MergeUnref(f) ==
    [f EXCEPT !.s.answers = dns_answer_unref(f.s.answers, f.old_answer),
              !.old_answer = 0, !.answer = 0, !.r = 0]

\* a return with r < 0: the cleanup of answer drops the reference it holds
MergeFail(f) ==
    [f EXCEPT !.s.answers = dns_answer_unref(f.s.answers, f.answer), !.answer = 0]

\* [s, r]: the merge of record rr into the store
MergePositive(s, rr, oom) ==
    LET Ensured(f1) ==
            LET Extended(f2) ==
                    LET Replaced(f3) ==
                            IF f3.r < 0 THEN [s |-> MergeFail(f3).s, r |-> f3.r]
                            ELSE [s |-> MergeUnref(f3).s, r |-> 0]
                    IN  IF f2.r < 0 THEN [s |-> MergeFail(f2).s, r |-> f2.r]
                        ELSE Replaced(MergeReplace(f2, oom))
            IN  IF f1.r < 0 THEN [s |-> f1.s, r |-> f1.r]
                ELSE Extended(MergeExtend(MergeRef(MergeGet(f1)), oom))
    IN  Ensured(MergeEnsure(MergeFrame(s, rr), oom))

\* [s, r]: lines 223-241 when the line parsed, x its parse
LoadParsed(s, x, oom) ==
    IF x.r < 0 THEN [s |-> s, r |-> x.r] ELSE MergePositive(s, x.rr, oom)

\* [s, r]
dns_trust_anchor_load_positive(s, l, oom) == LoadParsed(s, ParsePositive(l, oom), oom)

\* the negative loader without the test of lines 256-259
LoadNegativeUnvalidated(s, l, oom) ==
    LET Domain(d) ==
            LET Ensured(e) ==
                    LET Put(x) ==
                            IF x.r < 0 THEN [s |-> [s EXCEPT !.negative_by_name = e.h], r |-> -ENOMEM]
                            ELSE [s |-> [s EXCEPT !.negative_by_name = x.h], r |-> 0]
                    IN  IF e.r < 0 THEN [s |-> s, r |-> e.r]
                        ELSE Put(set_put(e.h, d.word, oom = 270))
            IN  IF d.r < 0 THEN [s |-> s, r |-> d.r]
                ELSE IF ~isempty(d.p) THEN [s |-> s, r |-> -EINVAL]
                ELSE Ensured(set_ensure_allocated(s.negative_by_name, oom = 266))
    IN  Domain(extract_first_word(l, TRUE))

\* [s, r]
dns_trust_anchor_load_negative(s, l, oom) ==
    LET Domain(d) ==
            LET Ensured(e) ==
                    LET Put(x) ==
                            IF x.r < 0 THEN [s |-> [s EXCEPT !.negative_by_name = e.h], r |-> -ENOMEM]
                            ELSE [s |-> [s EXCEPT !.negative_by_name = x.h], r |-> 0]
                    IN  IF e.r < 0 THEN [s |-> s, r |-> e.r]
                        ELSE Put(set_put(e.h, d.word, oom = 270))
            IN  IF d.r < 0 THEN [s |-> s, r |-> d.r]
                ELSE IF ~dns_name_is_valid(d.word) THEN [s |-> s, r |-> -EINVAL]
                ELSE IF ~isempty(d.p) THEN [s |-> s, r |-> -EINVAL]
                ELSE Ensured(set_ensure_allocated(s.negative_by_name, oom = 266))
    IN  Domain(extract_first_word(l, TRUE))

\* the answers after the references of all entries of the hashmap are dropped
RECURSIVE UnrefAll(_, _)
UnrefAll(answers, entries) ==
    LET Without(e) == UnrefAll(dns_answer_unref(answers, e.value), entries \ {e})
    IN  IF entries = {} THEN answers
        ELSE Without(CHOOSE x \in entries : TRUE)

\* a flush that forgets the negative set
FlushPositiveOnly(s) ==
    [answers |-> UnrefAll(s.answers, s.positive_by_key.entries),
     positive_by_key |-> NullMap,
     negative_by_name |-> s.negative_by_name]

dns_trust_anchor_flush(s) ==
    [answers |-> UnrefAll(s.answers, s.positive_by_key.entries),
     positive_by_key |-> NullMap,
     negative_by_name |-> NullMap]

\* a lookup that takes the entry out of the hashmap and hands the store's
\* reference to the caller
LookupConsuming(s, key) ==
    LET Found(a) ==
            IF a = 0 THEN [s |-> s, r |-> 0, ret |-> 0, consulted |-> TRUE]
            ELSE [s |-> [s EXCEPT !.positive_by_key.entries =
                                      {e \in @ : ~dns_resource_key_equal(e.key, key)}],
                  r |-> 1, ret |-> a, consulted |-> TRUE]
    IN  IF key.type \notin {DNS_TYPE_DS, DNS_TYPE_DNSKEY}
        THEN [s |-> s, r |-> 0, ret |-> 0, consulted |-> FALSE]
        ELSE Found(hashmap_get(s.positive_by_key, key))

\* the lookup without the test of line 391
LookupAnyType(s, key) ==
    LET Found(a) ==
            IF a = 0 THEN [s |-> s, r |-> 0, ret |-> 0, consulted |-> TRUE]
            ELSE [s |-> [s EXCEPT !.answers = dns_answer_ref(s.answers, a)],
                  r |-> 1, ret |-> a, consulted |-> TRUE]
    IN  Found(hashmap_get(s.positive_by_key, key))

\* [s, r, ret, consulted]: ret is the pointer written to *ret, 0 when *ret is left
\* alone; consulted tells whether the hashmap was looked at
dns_trust_anchor_lookup_positive(s, key) ==
    LET Found(a) ==
            IF a = 0 THEN [s |-> s, r |-> 0, ret |-> 0, consulted |-> TRUE]
            ELSE [s |-> [s EXCEPT !.answers = dns_answer_ref(s.answers, a)],
                  r |-> 1, ret |-> a, consulted |-> TRUE]
    IN  IF key.type \notin {DNS_TYPE_DS, DNS_TYPE_DNSKEY}
        THEN [s |-> s, r |-> 0, ret |-> 0, consulted |-> FALSE]
        ELSE Found(hashmap_get(s.positive_by_key, key))

\* a lookup that also finds the names below a stored name
LookupNegativeSuffix(s, name) ==
    LET Below(nn, mm) ==
            /\ Len(mm) <= Len(nn)
            /\ SubSeq(nn, Len(nn) - Len(mm) + 1, Len(nn)) = mm
            /\ (Len(mm) = Len(nn) \/ Len(mm) = 0 \/ nn[Len(nn) - Len(mm)] = ".")
    IN  IF \E m \in s.negative_by_name.entries :
               Below(dns_name_normalize(name), dns_name_normalize(m))
        THEN 1 ELSE 0

dns_trust_anchor_lookup_negative(s, name) == set_contains(s.negative_by_name, name)

(* ------------------- the lines, keys and names tried ------------------ *)

\* the words, one space between two of them
RECURSIVE Join(_)
Join(words) ==
    IF Len(words) = 0 THEN << >>
    ELSE IF Len(words) = 1 THEN words[1]
    ELSE words[1] \o << " " >> \o Join(Tail(words))

w_RSASHA256 == << "R", "S", "A", "S", "H", "A", "2", "5", "6" >>
w_RSASHA1 == << "R", "S", "A", "S", "H", "A", "1" >>
w_SHA256 == << "S", "H", "A", "2", "5", "6" >>
w_SHA1 == << "S", "H", "A", "1" >>
w_BOGUS == << "B", "O", "G", "U", "S" >>
w_1 == << "1" >>
w_12345 == << "1", "2", "3", "4", "5" >>
w_65535 == << "6", "5", "5", "3", "5" >>
w_65536 == << "6", "5", "5", "3", "6" >>
w_257 == << "2", "5", "7" >>
w_AB == << "A", "B" >>
w_AQID == << "A", "Q", "I", "D" >>

\* what a line is expected to yield, written out field by field
DSRecord(name, key_tag, algorithm, digest_type, digest) ==
    [key |-> [class |-> DNS_CLASS_IN, type |-> DNS_TYPE_DS, name |-> name],
     ds |-> [key_tag |-> key_tag, algorithm |-> algorithm, digest_type |-> digest_type, digest |-> digest],
     dnskey |-> ZeroDNSKEY]

DNSKEYRecord(name, flags, algorithm, key) ==
    [key |-> [class |-> DNS_CLASS_IN, type |-> DNS_TYPE_DNSKEY, name |-> name],
     ds |-> ZeroDS,
     dnskey |-> [flags |-> flags, protocol |-> 3, algorithm |-> algorithm, key |-> key]]

NoRecord == dns_resource_record_new_full(0, 0, << >>)

\* a line of the files tried: its text, what it is (a positive anchor, a negative
\* anchor, a line the file loader skips, or none of them), and its record
Positive(text, rr) == [text |-> text, kind |-> "positive", rr |-> rr]

Negative(text) == [text |-> text, kind |-> "negative", rr |-> NoRecord]

Skipped(text) == [text |-> text, kind |-> "skipped", rr |-> NoRecord]

Invalid(text) == [text |-> text, kind |-> "invalid", rr |-> NoRecord]

BuiltinRecord == DSRecord(<< >>, 19036, 8, 2, root_digest)

\* the lines tried, in *.positive and in *.negative files alike
Lines ==
    << Positive(Join(<< w_root, w_IN, w_DS, w_1, w_RSASHA256, w_SHA256, w_AB >>),
             DSRecord(<< >>, 1, 8, 2, << 171 >>)),
       Positive(Join(<< w_example_com, w_IN, w_DS, w_12345, w_RSASHA256, w_SHA1, << "a", "b", "C", "D" >> >>),
             DSRecord(w_example_com, 12345, 8, 1, << 171, 205 >>)),
       Positive(<< " " >> \o Join(<< w_EXAMPLE_COM, << " ", "i", "n" >>, << "d", "s" >>, w_12345, w_RSASHA256,
                     w_SHA1, << "A", "B", "c", "d" >> >>) \o << " " >>,
             DSRecord(w_example_com, 12345, 8, 1, << 171, 205 >>)),
       Positive(Join(<< w_example_com, w_IN, w_DS, w_65535, w_RSASHA1, w_SHA256, << "0", "0" >> >>),
             DSRecord(w_example_com, 65535, 5, 2, << 0 >>)),
       Positive(Join(<< << "\"" >> \o w_example_com \o << "\"" >>, w_IN, w_DNSKEY, w_257, w_3, w_RSASHA256, w_AQID >>),
             DNSKEYRecord(w_example_com, 257, 8, << 1, 2, 3 >>)),
       Invalid(Join(<< w_bad_name, w_IN, w_DS, w_1, w_RSASHA256, w_SHA256, w_AB >>)),
       Invalid(Join(<< w_example_com, w_IN >>)),
       Invalid(Join(<< w_example_com, << "C", "H" >>, w_DS, w_1, w_RSASHA256, w_SHA256, w_AB >>)),
       Invalid(Join(<< w_example_com, w_IN, << "A" >>, w_1, w_1, w_1, w_1 >>)),
       Invalid(Join(<< w_example_com, w_IN, w_DS, w_12345, w_RSASHA256, w_SHA1 >>)),
       Invalid(Join(<< w_example_com, w_IN, w_DS, w_65536, w_RSASHA256, w_SHA256, w_AB >>)),
       Invalid(Join(<< w_example_com, w_IN, w_DS, w_1, w_BOGUS, w_SHA256, w_AB >>)),
       Invalid(Join(<< w_example_com, w_IN, w_DS, w_1, w_RSASHA256, w_BOGUS, w_AB >>)),
       Invalid(Join(<< w_example_com, w_IN, w_DS, w_1, w_RSASHA256, w_SHA256, << "z", "z" >> >>)),
       Invalid(Join(<< w_example_com, w_IN, w_DS, w_1, w_RSASHA256, w_SHA256, w_AB, << "x" >> >>)),
       Invalid(Join(<< w_example_com, w_IN, w_DNSKEY, w_257, << "2" >>, w_RSASHA256, w_AQID >>)),
       Invalid(Join(<< w_example_com, w_IN, w_DNSKEY, << "x" >>, w_3, w_RSASHA256, w_AQID >>)),
       Invalid(Join(<< w_example_com, w_IN, w_DNSKEY, w_257, w_3, w_RSASHA256, << "A", "Q", "I" >> >>)),
       Invalid(Join(<< w_example_com, w_IN, w_DNSKEY, w_257, w_3, w_RSASHA256, w_AQID, w_AQID >>)),
       Invalid(Join(<< << "\"" >> \o w_example_com, w_IN, w_DS, w_1, w_RSASHA256, w_SHA256, w_AB >>)),
       Negative(w_example_com),
       Negative(<< " " >> \o w_EXAMPLE_COM),
       Negative(w_www_example_com),
       Invalid(w_bad_name),
       Skipped(<< " ", "\t" >>),
       Skipped(<< " ", ";", " " >> \o w_example_com),
       Positive(Join(<< w_root, w_IN, w_DS, w_1, w_RSASHA256, w_SHA1, w_AB >>),
             DSRecord(<< >>, 1, 8, 1, << 171 >>)),
       Invalid(Join(<< w_root, w_IN, w_DS, w_1, w_BOGUS, w_SHA256, w_AB >>)) >>

\* the keys looked up
LookupKeys ==
    { DNS_RESOURCE_KEY_CONST(DNS_CLASS_IN, DNS_TYPE_DS, w_root),
      DNS_RESOURCE_KEY_CONST(DNS_CLASS_IN, DNS_TYPE_DS, w_example_com),
      DNS_RESOURCE_KEY_CONST(DNS_CLASS_IN, DNS_TYPE_DNSKEY, w_EXAMPLE_COM),
      DNS_RESOURCE_KEY_CONST(DNS_CLASS_IN, DNS_TYPE_DS, w_www_example_com),
      DNS_RESOURCE_KEY_CONST(DNS_CLASS_IN, DNS_TYPE_A, w_example_com),
      DNS_RESOURCE_KEY_CONST(DNS_CLASS_IN, DNS_TYPE_A, w_root) }

\* the names looked up
LookupNames == { w_example_com, w_EXAMPLE_COM, w_www_example_com, w_com }

\* the allocations of a call that may fail, by source line; 0: none fails
OomPositive == {0, 157, 202, 223, 230, 234}
OomNegative == {0, 266, 270}
OomBuiltin == {0, 49, 57, 65, 69, 77}

\* DnsAnswer objects there is memory for: one per key the lines can store, one
\* per lookup result held, and the one a merge allocates before it drops the old
StoredKeys ==
    { [class |-> l.rr.key.class, type |-> l.rr.key.type, name |-> dns_name_normalize(l.rr.key.name)] :
        l \in { Lines[i] : i \in { j \in 1..Len(Lines) : Lines[j].kind = "positive" } } }

MaxAnswers == Cardinality(StoredKeys \cup {[RootDSKey EXCEPT !.name = << >>]}) + MaxHeld + 1

\* the lines as the file loader hands them on, and their parse by the positive
\* loader for each allocation of the parse that may fail
Stripped == [i \in 1..Len(Lines) |-> strstrip(Lines[i].text)]

Parsed == [i \in 1..Len(Lines) |-> [oom \in {0, 157, 202} |-> ParsePositive(Stripped[i], oom)]]

\* whether the file loader hands the stripped line to the loader
IsHandled(l) == ~isempty(l) /\ l[1] # ";"

\* the lines the loaders are called on directly
HandledLines == { i \in 1..Len(Lines) : IsHandled(Stripped[i]) }

\* the lines of the files dns_trust_anchor_load() is given: two root DS lines, a
\* root DS line with an unknown algorithm, a negative anchor and a comment
LoadLines == { i \in 1..Len(Lines) : Lines[i].text \in
                 { Lines[1].text, Lines[27].text, Lines[28].text, w_example_com,
                   << " ", ";", " " >> \o w_example_com } }

\* the keys and names looked up between two calls of dns_trust_anchor_load()
LoadKeys == { k \in LookupKeys : k.name = w_root }

LoadNames == { w_example_com, w_www_example_com }

\* the lines merged statement by statement: three lines of one key, two of them
\* with the same record
MergeLines == { i \in 1..Len(Lines) : /\ Lines[i].kind = "positive"
                                       /\ Lines[i].rr.key.type = DNS_TYPE_DS
                                       /\ Lines[i].rr.key.name = w_example_com }

\* the keys looked up while a merge is under way
MergeKeys == { k \in LookupKeys : k.type = DNS_TYPE_DS /\ k.name \in {w_example_com, w_root} }

(* ------------------------------- state -------------------------------- *)

VARIABLES
    memory,             \* the DnsAnswer objects, by pointer
    positive_by_key,    \* d->positive_by_key
    negative_by_name,   \* d->negative_by_name
    held,               \* the lookup results callers hold: pointer, and items seen
    pc,                 \* where the call under way is: "idle" outside of any
    suffix,             \* the suffix of the files being loaded
    files,              \* the files of the list not yet visited
    lineno,             \* the lines read of the open file
    frame,              \* the locals of the positive loader merging step by step
    last,               \* the call made last, and what it returned
    ld,                 \* about the dns_trust_anchor_load() under way or made last
    fresh,              \* a newly created store given the same dns_trust_anchor_load()
    inserted,           \* the names negative lines inserted since the last flush
    loads               \* the direct calls of the loaders since the last flush

vars == << memory, positive_by_key, negative_by_name, held, pc, suffix, files, lineno,
           frame, last, ld, fresh, inserted, loads >>

S == [answers |-> memory, positive_by_key |-> positive_by_key, negative_by_name |-> negative_by_name]

SetStore(s) ==
    /\ memory' = s.answers
    /\ positive_by_key' = s.positive_by_key
    /\ negative_by_name' = s.negative_by_name

EmptyStore ==
    [answers |-> [a \in 1..MaxAnswers |-> FreeAnswer],
     positive_by_key |-> NullMap,
     negative_by_name |-> NullMap]

\* the items of the answer stored under key, << >> when there is none
ItemsOf(s, key) ==
    IF hashmap_get(s.positive_by_key, key) = 0 THEN << >>
    ELSE s.answers[hashmap_get(s.positive_by_key, key)].items

Returned(op, r) ==
    [op |-> op, r |-> r, line |-> 0, key |-> RootDSKey, name |-> << >>, ret |-> 0, consulted |-> FALSE]

\* files_r: what dns_trust_anchor_load_files() returned last; troubles: what went
\* wrong in the files so far; handed: the line of the open file handed to the
\* loader last, what the loader returned, and the line handed before it when the
\* loader rejected that one; config: the files a whole call was given
NoLoad == [flushed |-> FALSE, no_files |-> TRUE, root_before |-> FALSE, root_accepted |-> << >>,
           files_r |-> 0, troubles |-> {},
           handed |-> [line |-> 0, r |-> 0, after |-> 0],
           config |-> [positive |-> << >>, negative |-> << >>]]

NoFrame == [rr |-> NoRecord, old_answer |-> 0, answer |-> 0, r |-> 0, line |-> 0, pre |-> << >>]

Init ==
    /\ memory = EmptyStore.answers
    /\ positive_by_key = NullMap
    /\ negative_by_name = NullMap
    /\ held = << >>
    /\ pc = "idle"
    /\ suffix = ".positive"
    /\ files = 0
    /\ lineno = 0
    /\ frame = NoFrame
    /\ last = Returned("new", 0)
    /\ ld = NoLoad
    /\ fresh = EmptyStore
    /\ inserted = {}
    /\ loads = 0

(* ------------------------ dns_trust_anchor_load ------------------------ *)

\* dns_trust_anchor_load() is called
Load ==
    /\ pc = "idle"
    /\ pc' = "enumerate"
    /\ suffix' = ".positive"
    /\ last' = Returned("loading", 0)
    /\ ld' = [NoLoad EXCEPT !.flushed = last.op = "flush",
                             !.root_before = hashmap_get(positive_by_key, RootDSKey) # 0]
    /\ fresh' = EmptyStore
    /\ UNCHANGED << memory, positive_by_key, negative_by_name, held, files, lineno, frame, inserted, loads >>

\* dns_trust_anchor_load_files() returns: the next loader, or the built-in anchor
ReturnFromFiles ==
    /\ pc' = IF suffix = ".positive" THEN "enumerate" ELSE "builtin"
    /\ suffix' = IF suffix = ".positive" THEN ".negative" ELSE suffix

\* conf_files_list_nulstr(): it fails (k = -1), or lists k files
ListFiles(k) ==
    /\ pc = "enumerate"
    /\ IF k < 0
       THEN ReturnFromFiles /\ files' = 0
       ELSE pc' = "files" /\ files' = k /\ suffix' = suffix
    /\ ld' = [ld EXCEPT !.no_files = @ /\ k = 0,
                         !.files_r = IF k < 0 THEN -ENOMEM ELSE @,
                         !.troubles = IF k < 0 THEN @ \cup {"enumerate"} ELSE @]
    /\ UNCHANGED << memory, positive_by_key, negative_by_name, held, lineno, frame, last, fresh, inserted,
                    loads >>

\* the next file of the list, a failure of fopen() other than ENOENT ending the
\* call with the error
OpenFileAborting(errno) ==
    /\ pc = "files"
    /\ files > 0
    /\ lineno' = 0
    /\ IF errno \in {0, ENOENT}
       THEN /\ files' = files - 1
            /\ pc' = IF errno = 0 THEN "lines" ELSE "files"
            /\ suffix' = suffix
            /\ ld' = [ld EXCEPT !.troubles = IF errno = 0 THEN @ ELSE @ \cup {"open"}]
       ELSE /\ files' = 0
            /\ ReturnFromFiles
            /\ ld' = [ld EXCEPT !.troubles = @ \cup {"open"}, !.files_r = -errno]
    /\ UNCHANGED << memory, positive_by_key, negative_by_name, held, frame, last, fresh, inserted, loads >>

\* the next file of the list: fopen() fails with errno, or errno = 0
OpenFile(errno) ==
    /\ pc = "files"
    /\ files > 0
    /\ files' = files - 1
    /\ pc' = IF errno = 0 THEN "lines" ELSE "files"
    /\ lineno' = 0
    /\ ld' = [ld EXCEPT !.troubles = IF errno = 0 THEN @ ELSE @ \cup {"open"}]
    /\ UNCHANGED << memory, positive_by_key, negative_by_name, held, suffix, frame, last, fresh,
                    inserted, loads >>

\* the list is at its end
EndOfList ==
    /\ pc = "files"
    /\ files = 0
    /\ ReturnFromFiles
    /\ ld' = [ld EXCEPT !.files_r = 0]
    /\ UNCHANGED << memory, positive_by_key, negative_by_name, held, files, lineno, frame, last, fresh,
                    inserted, loads >>

\* the open file is at its end
EndOfFile ==
    /\ pc = "lines"
    /\ pc' = "files"
    /\ lineno' = 0
    /\ ld' = [ld EXCEPT !.handed = NoLoad.handed]
    /\ UNCHANGED << memory, positive_by_key, negative_by_name, held, suffix, files, frame, last, fresh,
                    inserted, loads >>

\* the loader of the suffix on line i of the lines tried
Loader(sfx, s, i, oom) ==
    IF sfx = ".positive"
    THEN LoadParsed(s, Parsed[i][IF oom \in {157, 202} THEN oom ELSE 0], oom)
    ELSE dns_trust_anchor_load_negative(s, Stripped[i], oom)

\* lines 310-323 on a file that opens and holds these lines, no allocation
\* failing: the store after the file
RECURSIVE LoadFile(_, _, _)
LoadFile(sfx, s, ls) ==
    IF ls = << >> THEN s
    ELSE LoadFile(sfx,
                  IF IsHandled(Stripped[Head(ls)]) THEN Loader(sfx, s, Head(ls), 0).s ELSE s,
                  Tail(ls))

\* dns_trust_anchor_load_files() on the files fs, each given by its lines: the
\* store after the last file
RECURSIVE dns_trust_anchor_load_files(_, _, _)
dns_trust_anchor_load_files(sfx, s, fs) ==
    IF fs = << >> THEN s
    ELSE dns_trust_anchor_load_files(sfx, LoadFile(sfx, s, Head(fs)), Tail(fs))

\* [s, r]: dns_trust_anchor_load() on the files of c, no allocation failing
dns_trust_anchor_load(s, c) ==
    dns_trust_anchor_add_builtin(
        dns_trust_anchor_load_files(".negative",
            dns_trust_anchor_load_files(".positive", s, c.positive), c.negative),
        0)

\* the files of the configurations: files of ".positive" lines (two root DS
\* records; a rejected root DS line and two DS records of example.com; one of
\* these in another case, a line short of a field and a DNSKEY record) and of
\* ".negative" lines (example.com twice; www.example.com, an invalid name and a
\* comment)
PositiveFiles == { << 1, 27 >>, << 28, 2, 4 >>, << 3, 10, 5 >> }

NegativeFiles == { << 21, 22 >>, << 23, 24, 26 >> }

\* the lists of at most MaxFiles files of F
FileLists(F) == UNION { [1..n -> F] : n \in 0..MaxFiles }

Configs == [positive : FileLists(PositiveFiles), negative : FileLists(NegativeFiles)]

\* the root DS records the positive loader took during this call, with line i
RootAccepted(i, r) ==
    IF /\ suffix = ".positive"
       /\ r = 0
       /\ dns_resource_key_equal(Parsed[i][0].rr.key, RootDSKey)
       /\ \A j \in 1..Len(ld.root_accepted) :
              ~dns_resource_record_equal(ld.root_accepted[j], Parsed[i][0].rr)
    THEN Append(ld.root_accepted, Parsed[i][0].rr)
    ELSE ld.root_accepted

\* the names negative lines inserted, with line i handed to the loader of sfx
Inserted(sfx, i, r) ==
    IF sfx = ".negative" /\ r = 0
    THEN inserted \cup {extract_first_word(Stripped[i], TRUE).word}
    ELSE inserted

\* a file loader that leaves the file at the first line the loader rejects
ReadLineAborting(i, oom) ==
    /\ pc = "lines"
    /\ lineno < MaxLines
    /\ oom \in (IF suffix = ".positive" THEN OomPositive ELSE OomNegative)
    /\ lineno' = lineno + 1
    /\ LET Loaded(x) ==
               /\ SetStore(x.s)
               /\ fresh' = IF ld.flushed THEN Loader(suffix, fresh, i, oom).s ELSE fresh
               /\ ld' = [ld EXCEPT !.root_accepted = RootAccepted(i, x.r),
                                    !.handed = [line |-> i, r |-> x.r,
                                                after |-> IF @.r < 0 THEN @.line ELSE 0],
                                    !.troubles = IF x.r < 0 THEN @ \cup {"line"} ELSE @]
               /\ inserted' = Inserted(suffix, i, x.r)
               /\ pc' = IF x.r < 0 THEN "files" ELSE pc
       IN  IF IsHandled(Stripped[i])
           THEN Loaded(Loader(suffix, S, i, oom))
           ELSE UNCHANGED << memory, positive_by_key, negative_by_name, ld, fresh, inserted, pc >>
    /\ UNCHANGED << held, suffix, files, frame, last, loads >>

\* one more line of the open file is read: line i of the lines tried; what the
\* loader returns is dropped
ReadLine(i, oom) ==
    /\ pc = "lines"
    /\ lineno < MaxLines
    /\ oom \in (IF suffix = ".positive" THEN OomPositive ELSE OomNegative)
    /\ lineno' = lineno + 1
    /\ LET Loaded(x) ==
               /\ SetStore(x.s)
               /\ fresh' = IF ld.flushed THEN Loader(suffix, fresh, i, oom).s ELSE fresh
               /\ ld' = [ld EXCEPT !.root_accepted = RootAccepted(i, x.r),
                                    !.handed = [line |-> i, r |-> x.r,
                                                after |-> IF @.r < 0 THEN @.line ELSE 0],
                                    !.troubles = IF x.r < 0 THEN @ \cup {"line"} ELSE @]
               /\ inserted' = Inserted(suffix, i, x.r)
       IN  IF IsHandled(Stripped[i])
           THEN Loaded(Loader(suffix, S, i, oom))
           ELSE UNCHANGED << memory, positive_by_key, negative_by_name, ld, fresh, inserted >>
    /\ UNCHANGED << held, pc, suffix, files, frame, last, loads >>

\* a dns_trust_anchor_load() that hands on the error of the file loader
AddBuiltinAfterFiles(oom) ==
    /\ pc = "builtin"
    /\ LET Added(x) ==
               /\ SetStore(x.s)
               /\ last' = Returned("load", IF ld.files_r < 0 THEN ld.files_r ELSE x.r)
               /\ fresh' = IF ld.flushed THEN dns_trust_anchor_add_builtin(fresh, oom).s ELSE fresh
       IN  Added(dns_trust_anchor_add_builtin(S, oom))
    /\ pc' = "idle"
    /\ UNCHANGED << held, suffix, files, lineno, frame, ld, inserted, loads >>

\* dns_trust_anchor_add_builtin(), and dns_trust_anchor_load() returns
AddBuiltin(oom) ==
    /\ pc = "builtin"
    /\ LET Added(x) ==
               /\ SetStore(x.s)
               /\ last' = Returned("load", x.r)
               /\ fresh' = IF ld.flushed THEN dns_trust_anchor_add_builtin(fresh, oom).s ELSE fresh
       IN  Added(dns_trust_anchor_add_builtin(S, oom))
    /\ pc' = "idle"
    /\ UNCHANGED << held, suffix, files, lineno, frame, ld, inserted, loads >>

(* ---------------------- flush, lookups, callers ------------------------ *)

Flush ==
    /\ pc = "idle"
    /\ SetStore(dns_trust_anchor_flush(S))
    /\ last' = Returned("flush", 0)
    /\ inserted' = {}
    /\ loads' = 0
    /\ UNCHANGED << held, pc, suffix, files, lineno, frame, ld, fresh >>

\* the lookup, and its caller keeping the answer it was given
CallLookupPositive(key) ==
    LET Looked(x) ==
            /\ x.r = 1 => Len(held) < MaxHeld
            /\ SetStore(x.s)
            /\ held' = IF x.r = 1 THEN Append(held, [a |-> x.ret, seen |-> x.s.answers[x.ret].items])
                       ELSE held
            /\ last' = [Returned("lookup_positive", x.r) EXCEPT
                           !.key = key, !.ret = x.ret, !.consulted = x.consulted]
    IN  Looked(dns_trust_anchor_lookup_positive(S, key))

LookupPositive(key) ==
    /\ pc = "idle"
    /\ CallLookupPositive(key)
    /\ UNCHANGED << pc, suffix, files, lineno, frame, ld, fresh, inserted, loads >>

LookupNegative(name) ==
    /\ pc = "idle"
    /\ last' = [Returned("lookup_negative", dns_trust_anchor_lookup_negative(S, name)) EXCEPT !.name = name]
    /\ UNCHANGED << memory, positive_by_key, negative_by_name, held, pc, suffix, files, lineno, frame, ld,
                    fresh, inserted, loads >>

\* a caller drops the lookup result it holds: dns_answer_unref()
Release(i) ==
    /\ pc = "idle"
    /\ i \in 1..Len(held)
    /\ memory' = dns_answer_unref(memory, held[i].a)
    /\ held' = SubSeq(held, 1, i - 1) \o SubSeq(held, i + 1, Len(held))
    /\ UNCHANGED << positive_by_key, negative_by_name, pc, suffix, files, lineno, frame, last, ld, fresh,
                    inserted, loads >>

(* ------------------- the loaders, called on one line ------------------- *)

\* dns_trust_anchor_load_positive() on line i of the lines tried
LoadPositive(i, oom) ==
    /\ pc = "idle"
    /\ loads < MaxLoads
    /\ loads' = loads + 1
    /\ LET Loaded(x) ==
               /\ SetStore(x.s)
               /\ last' = [Returned("load_positive", x.r) EXCEPT !.line = i]
       IN  Loaded(Loader(".positive", S, i, oom))
    /\ UNCHANGED << held, pc, suffix, files, lineno, frame, ld, fresh, inserted >>

\* dns_trust_anchor_load_negative() on line i of the lines tried
LoadNegative(i, oom) ==
    /\ pc = "idle"
    /\ loads < MaxLoads
    /\ loads' = loads + 1
    /\ LET Loaded(x) ==
               /\ SetStore(x.s)
               /\ last' = [Returned("load_negative", x.r) EXCEPT !.line = i]
               /\ inserted' = Inserted(".negative", i, x.r)
       IN  Loaded(Loader(".negative", S, i, oom))
    /\ UNCHANGED << held, pc, suffix, files, lineno, frame, ld, fresh >>

(* ------- the merge of the positive loader, statement by statement ------ *)
(* pc names the statement to run next; other callers run between any two.  *)

MergePcs == {"ensure", "get", "ref", "extend", "replace", "unref"}

\* the frame of the merge under way, with the store
Frame == [s |-> S, rr |-> frame.rr, old_answer |-> frame.old_answer, answer |-> frame.answer,
          r |-> frame.r]

\* the statement has run: f is the frame after it, next the statement to run
\* next; with r < 0 the loader returns r and its cleanup runs
Stepped(f, next) ==
    LET Returning(g) ==
            /\ SetStore(g.s)
            /\ frame' = [frame EXCEPT !.old_answer = g.old_answer, !.answer = g.answer, !.r = g.r]
            /\ pc' = IF f.r < 0 THEN "idle" ELSE next
            /\ last' = IF f.r < 0 \/ next = "idle"
                       THEN [Returned("load_positive", f.r) EXCEPT !.line = frame.line]
                       ELSE last
            /\ UNCHANGED << held, suffix, files, lineno, ld, fresh, inserted, loads >>
    IN  Returning(IF f.r < 0 THEN MergeFail(f) ELSE f)

\* the positive loader has parsed line i and comes to line 223
BeginMerge(i) ==
    /\ pc = "idle"
    /\ Parsed[i][0].r = 0
    /\ pc' = "ensure"
    /\ frame' = [NoFrame EXCEPT !.rr = Parsed[i][0].rr, !.line = i,
                                !.pre = ItemsOf(S, Parsed[i][0].rr.key)]
    /\ last' = Returned("merging", 0)
    /\ UNCHANGED << memory, positive_by_key, negative_by_name, held, suffix, files, lineno, ld, fresh,
                    inserted, loads >>

StepEnsure(oom) == pc = "ensure" /\ Stepped(MergeEnsure(Frame, oom), "get")

StepGet == pc = "get" /\ Stepped(MergeGet(Frame), "ref")

StepRef == pc = "ref" /\ Stepped(MergeRef(Frame), "extend")

StepExtend(oom) == pc = "extend" /\ Stepped(MergeExtend(Frame, oom), "replace")

StepReplace(oom) == pc = "replace" /\ Stepped(MergeReplace(Frame, oom), "unref")

StepUnref == pc = "unref" /\ Stepped(MergeUnref(Frame), "idle")

\* a lookup between two statements of the merge
LookupDuringMerge(key) ==
    /\ pc \in MergePcs
    /\ CallLookupPositive(key)
    /\ UNCHANGED << pc, suffix, files, lineno, frame, ld, fresh, inserted, loads >>

\* a caller drops the lookup result it holds between two statements of the merge
ReleaseDuringMerge(i) ==
    /\ pc \in MergePcs
    /\ i \in 1..Len(held)
    /\ memory' = dns_answer_unref(memory, held[i].a)
    /\ held' = SubSeq(held, 1, i - 1) \o SubSeq(held, i + 1, Len(held))
    /\ UNCHANGED << positive_by_key, negative_by_name, pc, suffix, files, lineno, frame, last, ld, fresh,
                    inserted, loads >>

(* --------------------------- specifications ---------------------------- *)

\* dns_trust_anchor_load() file by file and line by line, flush and lookups
\* a whole dns_trust_anchor_load() on the files of c
Reload(c) ==
    /\ pc = "idle"
    /\ loads < MaxReloads
    /\ loads' = loads + 1
    /\ LET Loaded(x) ==
               /\ SetStore(x.s)
               /\ last' = Returned("load", x.r)
       IN  Loaded(dns_trust_anchor_load(S, c))
    /\ ld' = [NoLoad EXCEPT !.config = c]
    /\ UNCHANGED << held, pc, suffix, files, lineno, frame, fresh, inserted >>

Next ==
    \/ Load
    \/ \E k \in -1..MaxFiles : ListFiles(k)
    \/ \E errno \in {0, ENOENT, EACCES} : OpenFile(errno)
    \/ EndOfList
    \/ EndOfFile
    \/ \E i \in LoadLines : \E oom \in OomPositive \cup OomNegative : ReadLine(i, oom)
    \/ \E oom \in OomBuiltin : AddBuiltin(oom)
    \/ Flush
    \/ \E key \in LoadKeys : LookupPositive(key)
    \/ \E name \in LoadNames : LookupNegative(name)
    \/ \E i \in 1..MaxHeld : Release(i)

Spec == Init /\ [][Next]_vars

\* the loaders called line by line on all the lines tried, flush and lookups
NextLines ==
    \/ \E i \in HandledLines : \E oom \in OomPositive : LoadPositive(i, oom)
    \/ \E i \in HandledLines : \E oom \in OomNegative : LoadNegative(i, oom)
    \/ Flush
    \/ \E key \in LookupKeys : LookupPositive(key)
    \/ \E name \in LookupNames : LookupNegative(name)
    \/ \E i \in 1..MaxHeld : Release(i)

SpecLines == Init /\ [][NextLines]_vars

\* the merge of the positive loader statement by statement, with lookups between
NextMerge ==
    \/ \E i \in MergeLines : BeginMerge(i)
    \/ \E oom \in {0, 223} : StepEnsure(oom)
    \/ StepGet
    \/ StepRef
    \/ \E oom \in {0, 230} : StepExtend(oom)
    \/ \E oom \in {0, 234} : StepReplace(oom)
    \/ StepUnref
    \/ \E key \in MergeKeys : LookupDuringMerge(key)
    \/ \E key \in MergeKeys : LookupPositive(key)
    \/ \E i \in 1..MaxHeld : ReleaseDuringMerge(i)
    \/ \E i \in 1..MaxHeld : Release(i)
    \/ Flush

SpecMerge == Init /\ [][NextMerge]_vars

\* whole calls of dns_trust_anchor_load(), and flush
NextReload ==
    \/ \E c \in Configs : Reload(c)
    \/ Flush

SpecReload == Init /\ [][NextReload]_vars

(* ------------------------- what is observed --------------------------- *)

\* the items of an answer that holds the records rrs, in this order, each one
\* authenticated and bound to no interface
AuthenticatedItems(rrs) ==
    [i \in 1..Len(rrs) |-> [rr |-> rrs[i], ifindex |-> 0, flags |-> {DNS_ANSWER_AUTHENTICATED}]]

\* what lookups can tell of a store: the items under each key and the names,
\* keys and names in their normalized form, no pointer
View(s) ==
    [positive |-> {[key |-> [e.key EXCEPT !.name = dns_name_normalize(@)],
                    items |-> s.answers[e.value].items] : e \in s.positive_by_key.entries},
     negative |-> {dns_name_normalize(m) : m \in s.negative_by_name.entries}]

\* dns_trust_anchor_load() has returned success and nothing was called since
LoadSucceeded == pc = "idle" /\ last.op = "load" /\ last.r = 0

(* ------------------------------- C1 ----------------------------------- *)

\* C1 as stated: after a successful dns_trust_anchor_load() the lookup of
\* (IN, DS, root) finds an entry, and when there was no configuration file at all
\* that entry is the built-in record alone (19036, RSASHA256, SHA256, root_digest),
\* authenticated.
C1_AsStated ==
    LoadSucceeded =>
        /\ dns_trust_anchor_lookup_positive(S, RootDSKey).r = 1
        /\ ld.no_files => ItemsOf(S, RootDSKey) = AuthenticatedItems(<< BuiltinRecord >>)

\* C1, amended: after a successful dns_trust_anchor_load() the lookup of
\* (IN, DS, root) finds an entry, and when there was no configuration file at all
\* and the store held no entry for (IN, DS, root) when the load was called, that
\* entry is the built-in record alone, authenticated.
C1_RootAnchored ==
    LoadSucceeded =>
        /\ dns_trust_anchor_lookup_positive(S, RootDSKey).r = 1
        /\ (ld.no_files /\ ~ld.root_before) =>
               ItemsOf(S, RootDSKey) = AuthenticatedItems(<< BuiltinRecord >>)

\* a load without any file into a store without root entry has installed the
\* built-in record
C1_Witness ==
    /\ LoadSucceeded
    /\ ld.no_files /\ ~ld.root_before
    /\ Len(ItemsOf(S, RootDSKey)) = 1
    /\ ItemsOf(S, RootDSKey)[1].rr.ds.key_tag = 19036

(* ------------------------------- C2 ----------------------------------- *)

\* C2 as stated, for the root DS records the positive loader took: after the
\* dns_trust_anchor_load() the entry of (IN, DS, root) holds exactly these
\* records, and the load reports success.
C2_AsStated ==
    (pc = "idle" /\ last.op = "load" /\ ld.root_accepted # << >>) =>
        /\ last.r = 0
        /\ ItemsOf(S, RootDSKey) = AuthenticatedItems(ld.root_accepted)

\* C2, amended: when the positive loader took at least one root DS record during
\* a dns_trust_anchor_load() that was called on a store without entry for
\* (IN, DS, root), then after the load that entry holds exactly the records taken,
\* the built-in installer has added nothing and the load reports success.
C2_OperatorRootOnly ==
    (pc = "idle" /\ last.op = "load" /\ ld.root_accepted # << >> /\ ~ld.root_before) =>
        /\ last.r = 0
        /\ ItemsOf(S, RootDSKey) = AuthenticatedItems(ld.root_accepted)

\* two root DS records of the configuration are the whole entry after the load
C2_Witness ==
    /\ pc = "idle" /\ last.op = "load" /\ last.r = 0
    /\ ~ld.root_before
    /\ Len(ld.root_accepted) = 2
    /\ Len(ItemsOf(S, RootDSKey)) = 2
    /\ \A i \in 1..2 : ItemsOf(S, RootDSKey)[i].rr.ds.key_tag = 1

(* ------------------------------- C10 ---------------------------------- *)

\* C10: after dns_trust_anchor_flush() every positive and every negative lookup
\* finds nothing, whatever the store held; and a dns_trust_anchor_load() called
\* next leaves a store that lookups cannot tell from a newly created store given
\* the same load.
C10_FlushEmpties ==
    /\ last.op = "flush" =>
           /\ \A key \in LookupKeys : dns_trust_anchor_lookup_positive(S, key).r = 0
           /\ \A name \in LookupNames : dns_trust_anchor_lookup_negative(S, name) = 0
           /\ positive_by_key = NullMap /\ negative_by_name = NullMap
    /\ (pc = "idle" /\ last.op = "load" /\ ld.flushed) => View(S) = View(fresh)

\* a load after a flush has filled both sets again, a caller still holding an
\* answer of before the flush
C10_Witness ==
    /\ pc = "idle" /\ last.op = "load" /\ ld.flushed
    /\ held # << >>
    /\ negative_by_name.entries # {}
    /\ ld.root_accepted # << >>

(* ------------------------------- C3 ----------------------------------- *)

\* the positive loader was called on a line that is a valid DS or DNSKEY line
PositiveStep ==
    /\ loads' = loads + 1
    /\ last'.op = "load_positive"
    /\ Lines[last'.line].kind = "positive"

Has(items, rr) == \E j \in 1..Len(items) : dns_resource_record_equal(items[j].rr, rr)

\* the item holds the record rr, field by field, authenticated
IsItemOf(item, rr) ==
    /\ dns_resource_record_equal(item.rr, rr)
    /\ item.rr.key.class = rr.key.class /\ item.rr.key.type = rr.key.type
    /\ item.rr.ds = rr.ds
    /\ item.rr.dnskey = rr.dnskey
    /\ item.flags = {DNS_ANSWER_AUTHENTICATED}
    /\ item.ifindex = 0

\* C3: the positive loader, called on a valid DS or DNSKEY line and no allocation
\* failing, returns success, and the lookup of the line's (class, type, domain)
\* then finds an answer that holds the record of the line once, key tag or flags,
\* algorithm, digest type or protocol and digest or key bytes as written on the
\* line, authenticated; it is the only record when the key had no entry before.
C3_LoadedThenFound ==
    [][ (PositiveStep /\ last'.r # -ENOMEM) =>
            LET Line(l) ==
                    LET Found(x) ==
                            LET Items(items) ==
                                    /\ Cardinality({j \in 1..Len(items) : Has(<< items[j] >>, l.rr)}) = 1
                                    /\ \E j \in 1..Len(items) : IsItemOf(items[j], l.rr)
                                    /\ ItemsOf(S, l.rr.key) = << >> => Len(items) = 1
                            IN  /\ x.r = 1
                                /\ Items(x.s.answers[x.ret].items)
                    IN  /\ last'.r = 0
                        /\ Found(dns_trust_anchor_lookup_positive(S', l.rr.key))
            IN  Line(Lines[last'.line]) ]_vars

\* the quoted DNSKEY line was loaded: its key is found with flags, protocol,
\* algorithm and key bytes of the line
C3_Witness ==
    /\ last.op = "load_positive" /\ last.r = 0
    /\ Lines[last.line].kind = "positive"
    /\ Lines[last.line].rr.key.type = DNS_TYPE_DNSKEY
    /\ dns_trust_anchor_lookup_positive(S, Lines[last.line].rr.key).r = 1
    /\ Len(ItemsOf(S, Lines[last.line].rr.key)) = 1
    /\ ItemsOf(S, Lines[last.line].rr.key)[1].rr.dnskey =
           [algorithm |-> 8, flags |-> 257, protocol |-> 3, key |-> << 1, 2, 3 >>]

(* ------------------------------- C4 ----------------------------------- *)

DuplicateFree(s) ==
    \A e \in s.positive_by_key.entries :
        \A i, j \in 1..Len(s.answers[e.value].items) :
            i # j => ~dns_resource_record_equal(s.answers[e.value].items[i].rr,
                                                s.answers[e.value].items[j].rr)

IsPrefix(a, b) == Len(a) <= Len(b) /\ SubSeq(b, 1, Len(a)) = a

\* C5: the positive loader called on a valid line whose record is not in the
\* answer stored under its key returns success (no allocation failing) and the
\* answer stored under the key afterwards holds the records it held before and
\* the new one; no call of a loader takes a record out of an answer.
C5_MergeIsUnion ==
    [][ /\ (/\ PositiveStep
            /\ ~Has(ItemsOf(S, Lines[last'.line].rr.key), Lines[last'.line].rr)
            /\ last'.r # -ENOMEM) =>
               LET Merged(l, before, after) ==
                       /\ last'.r = 0
                       /\ Len(after) = Len(before) + 1
                       /\ IsPrefix(before, after)
                       /\ IsItemOf(after[Len(after)], l.rr)
               IN  Merged(Lines[last'.line], ItemsOf(S, Lines[last'.line].rr.key),
                          ItemsOf(S', Lines[last'.line].rr.key))
        /\ loads' = loads + 1 =>
               \A key \in LookupKeys : IsPrefix(ItemsOf(S, key), ItemsOf(S', key)) ]_vars

\* a second record was merged into the entry of its key
C5_Witness ==
    /\ loads = 2
    /\ last.op = "load_positive" /\ last.r = 0
    /\ Lines[last.line].kind = "positive"
    /\ Len(ItemsOf(S, Lines[last.line].rr.key)) = 2
    /\ IsItemOf(ItemsOf(S, Lines[last.line].rr.key)[2], Lines[last.line].rr)
    /\ ~IsItemOf(ItemsOf(S, Lines[last.line].rr.key)[1], Lines[last.line].rr)

(* ------------------------------- C6 ----------------------------------- *)

\* C6: an answer a lookup returned, while its caller holds it, is a live object
\* with the items it had when it was returned, whatever was merged or flushed
\* since.
C6_HeldUnchanged ==
    \A i \in 1..Len(held) :
        /\ memory[held[i].a].n_ref >= 1
        /\ memory[held[i].a].items = held[i].seen

\* a record was merged under the key of an answer a caller holds: the store has
\* one record more than the caller sees
C6_Witness ==
    /\ Len(held) = 1
    /\ held[1].seen # << >>
    /\ last.op = "load_positive" /\ last.r = 0
    /\ Len(ItemsOf(S, held[1].seen[1].rr.key)) = Len(held[1].seen) + 1
    /\ memory[held[1].a].items = held[1].seen
    /\ hashmap_get(positive_by_key, held[1].seen[1].rr.key) # held[1].a

(* ------------------------------- C7 ----------------------------------- *)

\* the items the entry of the record's key has once the record is merged into
\* items
MergedInto(items, rr) ==
    IF Has(items, rr) THEN items
    ELSE Append(items, [rr |-> rr, ifindex |-> 0, flags |-> {DNS_ANSWER_AUTHENTICATED}])

\* C7: between any two statements of a merge, the lookup of the key being merged
\* returns a live answer that holds either the items the entry had when the merge
\* began or these items with the record merged in, or it finds nothing when there
\* was no entry yet; and what a lookup made during the merge returned is one of
\* the two.
C7_AtomicReplace ==
    pc \in MergePcs =>
        LET Looked(x, pre, post) ==
                \/ /\ x.r = 1
                   /\ x.s.answers[x.ret].n_ref >= 2
                   /\ S.answers[x.ret].n_ref >= 1
                   /\ x.s.answers[x.ret].items \in {pre, post}
                   /\ x.s.answers[x.ret].items # << >>
                \/ /\ x.r = 0
                   /\ pre = << >>
        IN  /\ Looked(dns_trust_anchor_lookup_positive(S, frame.rr.key), frame.pre,
                      MergedInto(frame.pre, frame.rr))
            /\ \A i \in 1..Len(held) :
                   (/\ last.op = "lookup_positive"
                    /\ last.r = 1
                    /\ dns_resource_key_equal(last.key, frame.rr.key)
                    /\ held[i].a = last.ret) =>
                       /\ held[i].seen \in {frame.pre, MergedInto(frame.pre, frame.rr)}
                       /\ memory[held[i].a].items = held[i].seen

\* a lookup made while the new answer was built but not yet stored returned the
\* answer of before the merge, whole
C7_Witness ==
    /\ pc = "replace"
    /\ last.op = "lookup_positive" /\ last.r = 1
    /\ dns_resource_key_equal(last.key, frame.rr.key)
    /\ frame.pre # << >>
    /\ Len(held) = 1 /\ held[1].a = last.ret /\ held[1].seen = frame.pre
    /\ frame.answer # last.ret
    /\ memory[frame.answer].items = MergedInto(frame.pre, frame.rr)
    /\ memory[frame.answer].items # frame.pre

(* ------------------------------- C8 ----------------------------------- *)

\* C8: dns_trust_anchor_lookup_positive() for a key of a type other than DS and
\* DNSKEY returns 0 in every state, does not look at the hashmap and does not
\* write *ret.
C8_OtherTypesNotFound ==
    /\ \A key \in LookupKeys :
           key.type \notin {DNS_TYPE_DS, DNS_TYPE_DNSKEY} =>
               dns_trust_anchor_lookup_positive(S, key) =
                   [s |-> S, r |-> 0, ret |-> 0, consulted |-> FALSE]
    /\ (last.op = "lookup_positive" /\ last.key.type \notin {DNS_TYPE_DS, DNS_TYPE_DNSKEY}) =>
           last.r = 0 /\ last.ret = 0 /\ ~last.consulted

\* an A key was looked up for a domain that has a DS entry
C8_Witness ==
    /\ last.op = "lookup_positive"
    /\ last.key.type = DNS_TYPE_A
    /\ last.r = 0
    /\ ItemsOf(S, [last.key EXCEPT !.type = DNS_TYPE_DS]) # << >>

(* ------------------------------- C9 ----------------------------------- *)

\* C9: dns_trust_anchor_lookup_negative() returns 1 exactly for the names a valid
\* negative line inserted since the last flush, names being the same when they
\* are equal as DNS names (case and a trailing dot apart), and 0 for every other
\* name, the names below or above an inserted name included.
C9_ExactNegative ==
    /\ \A name \in LookupNames :
           dns_trust_anchor_lookup_negative(S, name) =
               IF \E m \in inserted : Normalize(m) = Normalize(name) THEN 1 ELSE 0
    /\ last.op = "lookup_negative" =>
           last.r = IF \E m \in inserted : Normalize(m) = Normalize(last.name) THEN 1 ELSE 0

\* only example.com was inserted: www.example.com was looked up and not found,
\* and example.com is found
C9_Witness ==
    /\ inserted = {w_example_com}
    /\ last.op = "lookup_negative" /\ last.name = w_www_example_com /\ last.r = 0
    /\ dns_trust_anchor_lookup_negative(S, w_example_com) = 1
    /\ dns_trust_anchor_lookup_negative(S, w_com) = 0

(* ------------------------------- C11 ---------------------------------- *)

\* C11: dns_trust_anchor_load() returns what dns_trust_anchor_add_builtin()
\* returns: an error exactly when the installer failed, which leaves the store
\* without entry for (IN, DS, root), and success otherwise, whatever went wrong
\* with the enumeration, the opening of files and the lines before.
C11_OnlyBuiltinFails ==
    [][ /\ (pc = "builtin" /\ pc' = "idle") =>
               \E oom \in OomBuiltin :
                   /\ last'.r = dns_trust_anchor_add_builtin(S, oom).r
                   /\ S' = dns_trust_anchor_add_builtin(S, oom).s
        /\ (pc' = "idle" /\ last'.op = "load") =>
               /\ last'.r \in {0, -ENOMEM}
               /\ last'.r = 0 <=> dns_trust_anchor_lookup_positive(S', RootDSKey).r = 1 ]_vars

\* a load has returned success after an enumeration failed, a file could not be
\* opened and a line was rejected
C11_Witness ==
    /\ pc = "idle" /\ last.op = "load" /\ last.r = 0
    /\ ld.troubles = {"enumerate", "open", "line"}

(* ------------------------------- C12 ---------------------------------- *)

\* the lines tried whose first word is no valid DNS name
InvalidDomainLines ==
    { i \in HandledLines : /\ extract_first_word(Stripped[i], TRUE).r >= 0
                           /\ ~dns_name_is_valid(extract_first_word(Stripped[i], TRUE).word) }

\* every name in the store is a valid DNS name
NamesValid(s) ==
    /\ \A e \in s.positive_by_key.entries :
           /\ dns_name_is_valid(e.key.name)
           /\ \A j \in 1..Len(s.answers[e.value].items) :
                  dns_name_is_valid(s.answers[e.value].items[j].rr.key.name)
    /\ \A m \in s.negative_by_name.entries : dns_name_is_valid(m)

\* C12: a loader, positive or negative, called on a line whose first word is no
\* valid DNS name returns -EINVAL and leaves the store as it was; and every name
\* in the store, of a key, of a record or of a negative anchor, is a valid DNS
\* name in every state.
C12_InvalidDomainRejected ==
    [][ /\ (loads' = loads + 1 /\ last'.line \in InvalidDomainLines) =>
               last'.r = -EINVAL /\ S' = S
        /\ NamesValid(S') ]_vars

\* the negative loader has rejected a name that is not valid, the store holding
\* a negative anchor
C12_Witness ==
    /\ last.op = "load_negative" /\ last.r = -EINVAL
    /\ last.line \in InvalidDomainLines
    /\ loads = 2
    /\ negative_by_name.entries # {}

(* ------------------------------- C13 ---------------------------------- *)

\* the first word of line i as the loaders extract it
DomainOf(i) == extract_first_word(Stripped[i], TRUE).word

\* C13: a line read from a file leaves the file open and the list of files as it
\* is, whatever the loader returned for it or for the line before; a line handed
\* to the loader after a rejected one is treated like any other; and a valid
\* positive line that follows a rejected line for the same domain, the key having
\* no entry, leaves under its key exactly the record of the valid line.
C13_RejectedLineGoesOn ==
    [][ (pc = "lines" /\ lineno' = lineno + 1) =>
            /\ pc' = "lines" /\ files' = files /\ suffix' = suffix
            /\ ld'.handed # ld.handed =>
                   \E oom \in OomPositive \cup OomNegative :
                       /\ ld'.handed.r = Loader(suffix, S, ld'.handed.line, oom).r
                       /\ S' = Loader(suffix, S, ld'.handed.line, oom).s
            /\ (/\ suffix = ".positive"
                /\ ld'.handed.after # 0
                /\ ld'.handed.r = 0
                /\ dns_name_equal(DomainOf(ld'.handed.after), DomainOf(ld'.handed.line))
                /\ ItemsOf(S, Lines[ld'.handed.line].rr.key) = << >>) =>
                   /\ Len(ItemsOf(S', Lines[ld'.handed.line].rr.key)) = 1
                   /\ IsItemOf(ItemsOf(S', Lines[ld'.handed.line].rr.key)[1],
                               Lines[ld'.handed.line].rr) ]_vars

\* the first line of a file, a root DS line with an unknown algorithm, was
\* rejected and the second line, a valid root DS line, is the entry of the root
C13_Witness ==
    /\ pc = "lines" /\ suffix = ".positive" /\ lineno = 2
    /\ ld.handed.after = 28
    /\ ld.handed.r = 0
    /\ Lines[ld.handed.line].kind = "positive"
    /\ ~ld.root_before
    /\ ItemsOf(S, RootDSKey) = AuthenticatedItems(<< Parsed[ld.handed.line][0].rr >>)

(* ------------------------------- C14 ---------------------------------- *)

\* the stores s and t hold the same keys, the same records under each key and the
\* same names; the reference counts of the answers may differ
SameContents(s, t) ==
    /\ t.positive_by_key = s.positive_by_key
    /\ t.negative_by_name = s.negative_by_name
    /\ \A a \in DOMAIN s.answers : t.answers[a].items = s.answers[a].items

\* C14: dns_trust_anchor_lookup_positive() and dns_trust_anchor_lookup_negative()
\* leave both hashmaps and the records of every answer as they are, in every state
\* and for every key and name, whether they find something or not; the positive
\* lookup adds one reference to the answer it returns and nothing else.
C14_LookupsReadOnly ==
    [][ (/\ last'.op \in {"lookup_positive", "lookup_negative"}
         /\ loads' = loads
         /\ Len(held') >= Len(held)) =>
            /\ SameContents(S, S')
            /\ View(S') = View(S)
            /\ \A key \in LookupKeys :
                   LET Looked(x) ==
                           /\ SameContents(S, x.s)
                           /\ \A a \in DOMAIN memory :
                                  x.s.answers[a].n_ref =
                                      memory[a].n_ref + (IF x.r = 1 /\ a = x.ret THEN 1 ELSE 0)
                   IN  Looked(dns_trust_anchor_lookup_positive(S, key)) ]_vars

\* a positive lookup has found an answer in a store that holds anchors of both
\* kinds
C14_Witness ==
    /\ last.op = "lookup_positive" /\ last.r = 1
    /\ Len(held) = 1 /\ held[1].a = last.ret
    /\ memory[last.ret].n_ref = 2
    /\ positive_by_key.entries # {}
    /\ negative_by_name.entries # {}

(* ------------------------------- C15 ---------------------------------- *)

\* the lines tried that have a valid domain, a class and a type, the class not
\* IN or the type neither DS nor DNSKEY
OtherClassOrTypeLines ==
    { i \in HandledLines :
        LET Words(d) ==
                LET ClassType(ct) ==
                        /\ ct.r = 2
                        /\ \/ ascii_strlower(ct.words[1]) # << "i", "n" >>
                           \/ ascii_strlower(ct.words[2]) \notin
                                  { << "d", "s" >>, << "d", "n", "s", "k", "e", "y" >> }
                IN  /\ d.r >= 0
                    /\ dns_name_is_valid(d.word)
                    /\ ClassType(extract_many_words(d.p, 2))
        IN  Words(extract_first_word(Stripped[i], TRUE)) }

\* the keys and the records of the store have class IN and type DS or DNSKEY,
\* and so has what a lookup returns
TypesServed(s) ==
    /\ \A e \in s.positive_by_key.entries :
           /\ e.key.class = DNS_CLASS_IN
           /\ e.key.type \in {DNS_TYPE_DS, DNS_TYPE_DNSKEY}
           /\ \A j \in 1..Len(s.answers[e.value].items) :
                  /\ s.answers[e.value].items[j].rr.key.class = DNS_CLASS_IN
                  /\ s.answers[e.value].items[j].rr.key.type \in {DNS_TYPE_DS, DNS_TYPE_DNSKEY}
    /\ \A key \in LookupKeys :
           LET Looked(x) ==
                   x.r = 1 =>
                       \A j \in 1..Len(x.s.answers[x.ret].items) :
                           /\ x.s.answers[x.ret].items[j].rr.key.type = key.type
                           /\ key.type \in {DNS_TYPE_DS, DNS_TYPE_DNSKEY}
           IN  Looked(dns_trust_anchor_lookup_positive(s, key))

\* C15: the positive loader called on a line whose class is not IN or whose type
\* is neither DS nor DNSKEY returns -EINVAL and leaves the store as it was; and
\* in every state every key and every record of the positive store has class IN
\* and type DS or DNSKEY, and a lookup returns records of the type asked for only.
C15_OnlyDSAndDNSKEY ==
    [][ (loads' = loads + 1) =>
            /\ (last'.op = "load_positive" /\ last'.line \in OtherClassOrTypeLines) =>
                   last'.r = -EINVAL /\ S' = S
            /\ TypesServed(S') ]_vars

\* lines of class CH and of type A were rejected
C15_Witness ==
    /\ loads = 2
    /\ last.op = "load_positive" /\ last.r = -EINVAL
    /\ last.line \in OtherClassOrTypeLines
    /\ positive_by_key.entries # {}
    /\ Cardinality(OtherClassOrTypeLines) >= 2

(* ------------------------------- C16 ---------------------------------- *)

\* the lines with a valid domain that are not of the form the loader of the
\* suffix accepts: for ".positive" a missing class or type, a class other than
\* IN, a type other than DS and DNSKEY, fewer than four type fields, a key tag
\* or flags out of range or not a number, an unknown algorithm or digest type,
\* digits that are not hexadecimal or base64, a protocol other than 3, a word
\* after the last field, an unterminated quote; for ".negative" anything after
\* the domain
MalformedLines(sfx) ==
    { i \in HandledLines \ InvalidDomainLines :
        Lines[i].kind # (IF sfx = ".positive" THEN "positive" ELSE "negative") }

\* C16: a loader called on a line that has a valid domain and is malformed in
\* any other way returns an error and leaves both stores and every answer,
\* the one merged before under the key of the line included, as they were.
C16_MalformedLineRejected ==
    [][ (loads' = loads + 1) =>
            /\ (last'.op = "load_positive" /\ last'.line \in MalformedLines(".positive")) =>
                   last'.r < 0 /\ S' = S
            /\ (last'.op = "load_negative" /\ last'.line \in MalformedLines(".negative")) =>
                   last'.r < 0 /\ S' = S ]_vars

\* a malformed example.com line was rejected after a DS record of example.com was
\* merged
C16_Witness ==
    /\ loads = 2
    /\ last.op = "load_positive" /\ last.r < 0
    /\ last.line \in MalformedLines(".positive")
    /\ dns_name_equal(DomainOf(last.line), w_example_com)
    /\ Len(ItemsOf(S, DNS_RESOURCE_KEY_CONST(DNS_CLASS_IN, DNS_TYPE_DS, w_example_com))) = 1
    /\ { 7, 8, 9, 10, 11, 12, 13, 14, 15, 16, 17, 18, 19, 20, 21 } \subseteq MalformedLines(".positive")
    /\ { 2, 5, 15, 19 } \subseteq MalformedLines(".negative")

(* ------------------------------- C18 ---------------------------------- *)

\* the step in which dns_trust_anchor_load_files() returns
FilesReturn ==
    /\ pc \in {"enumerate", "files", "lines"}
    /\ \/ pc' \notin {"enumerate", "files", "lines"}
       \/ suffix' # suffix

\* C18: while the file loader goes through the list, a step on the list takes
\* exactly the next file off it, whether fopen() failed or not, and a failed
\* fopen() changes no store; reading a file takes nothing off the list; the
\* loader returns from the list only when the list is empty, and then with 0;
\* it returns a negative value exactly when the enumeration failed.
C18_UnopenableFileSkipped ==
    [][ /\ (pc = "files" /\ files > 0) =>
               /\ files' = files - 1
               /\ pc' \in {"files", "lines"}
               /\ suffix' = suffix
               /\ pc' = "files" => S' = S
        /\ pc = "lines" =>
               /\ files' = files
               /\ pc' \in {"files", "lines"}
               /\ suffix' = suffix
        /\ FilesReturn =>
               /\ pc \in {"enumerate", "files"}
               /\ pc = "files" => files = 0
               /\ ld'.files_r \in {0, -ENOMEM}
               /\ ld'.files_r < 0 <=> pc = "enumerate"
               /\ S' = S ]_vars

\* the first of two files could not be opened, and the root DS record of a line
\* of the second one is in the store
C18_Witness ==
    /\ pc = "lines" /\ suffix = ".positive" /\ files = 0
    /\ ld.troubles = {"open"}
    /\ ~ld.root_before
    /\ ld.handed.r = 0 /\ ld.handed.line # 0
    /\ Lines[ld.handed.line].kind = "positive"
    /\ ItemsOf(S, RootDSKey) = AuthenticatedItems(<< Parsed[ld.handed.line][0].rr >>)

(* ------------------------------- C19 ---------------------------------- *)

\* the references of the store to answer a, and those of the callers of lookups
\* that have not released their result
StoreRefs(a) == Cardinality({ e \in positive_by_key.entries : e.value = a })
CallerRefs(a) == Cardinality({ i \in 1..Len(held) : held[i].a = a })

\* C19: in every state the reference count of every answer is the number of
\* store entries that point to it, which is at most one, plus the number of
\* lookup results not yet released; an answer nobody refers to is free, and an
\* answer a caller holds is not free and has the records the caller was given.
C19_ReferenceCounts ==
    /\ \A a \in DOMAIN memory :
           /\ StoreRefs(a) <= 1
           /\ memory[a].n_ref = StoreRefs(a) + CallerRefs(a)
           /\ memory[a].n_ref = 0 => memory[a] = FreeAnswer
    /\ \A e \in positive_by_key.entries : e.value \in DOMAIN memory
    /\ \A i \in 1..Len(held) :
           /\ held[i].a \in DOMAIN memory
           /\ memory[held[i].a].n_ref >= 1
           /\ memory[held[i].a].items = held[i].seen

\* a caller holds the last reference to an answer that a merge replaced, and
\* the store holds the only reference to the answer that replaced it
C19_Witness ==
    /\ Len(held) = 1
    /\ memory[held[1].a].n_ref = 1
    /\ StoreRefs(held[1].a) = 0
    /\ last.op = "load_positive" /\ last.r = 0
    /\ \E e \in positive_by_key.entries :
           /\ dns_resource_key_equal(e.key, Lines[last.line].rr.key)
           /\ memory[e.value].n_ref = 1
           /\ Len(memory[e.value].items) = Len(held[1].seen) + 1

(* ------------------------------- C20 ---------------------------------- *)

\* every answer of the store has a record, and its records have the key of the
\* entry
KeyConsistent(s) ==
    \A e \in s.positive_by_key.entries :
        /\ s.answers[e.value].items # << >>
        /\ \A j \in 1..Len(s.answers[e.value].items) :
               dns_resource_key_equal(s.answers[e.value].items[j].rr.key, e.key)

\* the entries of s and of t are the same but for the one of the key
SameButFor(s, t, key) ==
    /\ \A e \in s.positive_by_key.entries :
           ~dns_resource_key_equal(e.key, key) =>
               /\ e \in t.positive_by_key.entries
               /\ t.answers[e.value] = s.answers[e.value]
    /\ \A e \in t.positive_by_key.entries :
           ~dns_resource_key_equal(e.key, key) => e \in s.positive_by_key.entries

\* C20: in every state every answer of the positive store has at least one
\* record and each of its records has the class, type and name of the key of
\* its entry; the positive loader leaves the negative set and the entries of
\* every key other than that of its line as they were, a rejected line every
\* entry; the negative loader leaves the positive store and the answers as they
\* were.
C20_KeyConsistency ==
    [][ /\ KeyConsistent(S')
        /\ (loads' = loads + 1 /\ last'.op = "load_positive") =>
               /\ negative_by_name' = negative_by_name
               /\ IF Lines[last'.line].kind = "positive"
                  THEN SameButFor(S, S', Lines[last'.line].rr.key)
                  ELSE positive_by_key'.entries = positive_by_key.entries /\ memory' = memory
        /\ (loads' = loads + 1 /\ last'.op = "load_negative") =>
               /\ positive_by_key' = positive_by_key
               /\ memory' = memory ]_vars

\* a record was merged while the store had an entry of another key
C20_Witness ==
    /\ last.op = "load_positive" /\ last.r = 0 /\ loads = 2
    /\ Cardinality(positive_by_key.entries) = 2
    /\ \E e \in positive_by_key.entries :
           /\ ~dns_resource_key_equal(e.key, Lines[last.line].rr.key)
           /\ Len(memory[e.value].items) = 1
    /\ Len(ItemsOf(S, Lines[last.line].rr.key)) = 1
    /\ KeyConsistent(S)

(* ------------------------------- C17 ---------------------------------- *)

\* C17: a dns_trust_anchor_load() that follows another one without a flush in
\* between and is given the same files, no allocation failing in either,
\* returns success and leaves the keys, the records under each key in their
\* order, and the negative names as the first one left them; no answer has a
\* record twice.
C17_LoadIdempotent ==
    [][ (loads >= 1 /\ loads' = loads + 1 /\ last'.op = "load" /\ ld'.config = ld.config) =>
            /\ last'.r = 0
            /\ View(S') = View(S)
            /\ DuplicateFree(S') ]_vars

\* the second of two calls given the same two files of each kind has returned,
\* the store holding the operator's root DS records, three records of
\* example.com under two keys, and two negative names
C17_Witness ==
    /\ last.op = "load" /\ last.r = 0 /\ loads = 2
    /\ Len(ld.config.positive) = 2 /\ Len(ld.config.negative) = 2
    /\ Len(ItemsOf(S, RootDSKey)) = 2
    /\ Cardinality(positive_by_key.entries) = 3
    /\ Cardinality(negative_by_name.entries) = 2
    /\ View(S) = View(dns_trust_anchor_load(EmptyStore, ld.config).s)

============================================================================
